---- MODULE Spec2Model ----
(***************************************************************************)
(* duckwind: the utility-class compiler's EmitEnv as a state machine.      *)
(* Strings are sequences of one-character strings, so that byte offsets,   *)
(* prefixes, escaping and lexing are computed the way the code computes    *)
(* them.  An offset into a text that parse_full_string scans counts bytes; *)
(* every other text that is sliced by offset is ASCII, so that byte and    *)
(* char offsets agree.                                                     *)
(***************************************************************************)
EXTENDS Integers, Sequences, FiniteSets, TLC

\* the six fields of the EmitEnv under test
VARIABLES defs, utilities, variants, theme, defs_generated, custom_properties
\* outcome: the last call made on the EmitEnv and what it returned
\* loaded:  the configurations passed to load_config so far, in order
\* ops:     the number of calls made so far
\* once:    a second EmitEnv, which loads its configuration exactly once
VARIABLES outcome, loaded, ops, once

vars == <<defs, utilities, variants, theme, defs_generated, custom_properties,
          outcome, loaded, ops, once>>

(***************************************************************************)
(* Bounds of the model.                                                    *)
(***************************************************************************)
\* number of load_config / parse_tailwind_str calls made on one EmitEnv
MaxOps == 3
\* number of times the same configuration is loaded into one EmitEnv
MaxLoads == 3
\* number of tokens submitted to the two EmitEnvs that are compared
MaxTokens == 2

(***************************************************************************)
(* String helpers (std::string operations used by the code).               *)
(***************************************************************************)
Lower == {"a","b","c","d","e","f","g","h","i","j","k","l","m",
          "n","o","p","q","r","s","t","u","v","w","x","y","z"}
Upper == {"A","B","C","D","E","F","G","H","I","J","K","L","M",
          "N","O","P","Q","R","<<",">>T","U","V","W","X","Y","Z"}
Digit == {"0","1","2","3","4","5","6","7","8","9"}

is_ascii_alphanumeric(c) == c \in Lower \cup Upper \cup Digit

is_whitespace(c) == c \in {" ", "\n", "\t", "\r"}

\* s[from..to) with 0-based byte offsets, as Rust's &s[from..to]
Slice(s, from, to) == SubSeq(s, from + 1, to)

\* s[from..]
SliceFrom(s, from) == SubSeq(s, from + 1, Len(s))

starts_with(s, p) == Len(p) <= Len(s) /\ SubSeq(s, 1, Len(p)) = p

ends_with(s, p) == Len(p) <= Len(s) /\ SubSeq(s, Len(s) - Len(p) + 1, Len(s)) = p

\* str::find(pat): 0-based offset of the first occurrence, -1 for None
find(s, p) ==
    LET hits == {i \in 0..(Len(s) - Len(p)) : Slice(s, i, i + Len(p)) = p}
    IN IF hits = {} THEN -1 ELSE CHOOSE i \in hits : \A j \in hits : i <= j

\* str::rfind(pat): 0-based offset of the last occurrence, -1 for None
rfind(s, p) ==
    LET hits == {i \in 0..(Len(s) - Len(p)) : Slice(s, i, i + Len(p)) = p}
    IN IF hits = {} THEN -1 ELSE CHOOSE i \in hits : \A j \in hits : i >= j

contains(s, p) == find(s, p) >= 0

\* String::insert_str(idx, t)
insert_str(s, idx, t) == Slice(s, 0, idx) \o t \o SliceFrom(s, idx)

\* [..].join(sep)
RECURSIVE join(_, _)
join(strs, sep) ==
    IF Len(strs) = 0 THEN <<>>
    ELSE IF Len(strs) = 1 THEN strs[1]
    ELSE strs[1] \o sep \o join(Tail(strs), sep)

\* str::replace(from, to) for a one-character pattern
RECURSIVE replace_char(_, _, _)
replace_char(s, c, to) ==
    IF Len(s) = 0 THEN <<>>
    ELSE (IF s[1] = c THEN to ELSE <<s[1]>>) \o replace_char(Tail(s), c, to)

\* str::split_once("/"): None, or the text before and after the first "/"
split_once(s, p) ==
    LET at == find(s, p)
    IN IF at < 0 THEN [some |-> FALSE, pre |-> <<>>, post |-> <<>>]
       ELSE [some |-> TRUE, pre |-> Slice(s, 0, at),
             post |-> SliceFrom(s, at + Len(p))]

(***************************************************************************)
(* lib.rs: CSS escaping of the class name.                                 *)
(***************************************************************************)
\* the characters outside ASCII that the inputs use
NonAscii == {"é", "ß", "€"}
is_ascii(c) == c \notin NonAscii

\* str::len: the length in bytes (UTF-8)
RECURSIVE byte_len(_)
byte_len(s) ==
    LET len_utf8(c) == IF c = "€" THEN 3 ELSE IF is_ascii(c) THEN 1 ELSE 2
    IN IF Len(s) = 0 THEN 0 ELSE len_utf8(s[1]) + byte_len(Tail(s))

\* str::is_char_boundary: the byte offset i is the start of a character
\* or the end of s
is_char_boundary(s, i) == \E n \in 0..Len(s) : byte_len(SubSeq(s, 1, n)) = i

\* is_valid_css_char done wrongly: a character outside ASCII is not valid
\* (C12 must fail for it)
is_valid_css_char_ascii(c) == is_ascii_alphanumeric(c) \/ c = "-" \/ c = "_"

is_valid_css_char(c) ==
    is_ascii_alphanumeric(c) \/ c = "-" \/ c = "_" \/ ~is_ascii(c)

RECURSIVE escape_string_for_css(_)
escape_string_for_css(s) ==
    IF Len(s) = 0 THEN <<>>
    ELSE (IF ~is_valid_css_char(s[1]) THEN <<"\\", s[1]>> ELSE <<s[1]>>)
         \o escape_string_for_css(Tail(s))

(***************************************************************************)
(* lexer.rs: the utility-token lexer.                                      *)
(***************************************************************************)
\* parse_raw_text done wrongly: the group ends at the first "]", inner
\* pairs are not followed (C13 must fail for it)
RECURSIVE parse_raw_text_flat(_, _, _)
parse_raw_text_flat(s, j, acc) ==
    IF j > Len(s) THEN [ok |-> FALSE, text |-> <<>>, next |-> j]
    ELSE IF s[j] = "]" THEN [ok |-> TRUE, text |-> acc, next |-> j + 1]
    ELSE parse_raw_text_flat(s, j + 1, acc \o <<s[j]>>)

\* parse_raw_text after an opening "[" at 1-based position j - 1: the raw
\* body up to the matching "]", inner pairs kept verbatim.  An inner "["
\* whose group does not close is taken as a plain character (second
\* alternative of the choice).
RECURSIVE parse_raw_text(_, _, _)
parse_raw_text(s, j, acc) ==
    IF j > Len(s) THEN [ok |-> FALSE, text |-> <<>>, next |-> j]
    ELSE IF s[j] = "]" THEN [ok |-> TRUE, text |-> acc, next |-> j + 1]
    ELSE IF s[j] = "["
         THEN LET nested(inner) ==
                      IF inner.ok
                      THEN parse_raw_text(s, inner.next,
                                          acc \o <<"[">> \o inner.text \o <<"]">>)
                      ELSE parse_raw_text(s, j + 1, acc \o <<"[">>)
              IN nested(parse_raw_text(s, j + 1, <<>>))
    ELSE parse_raw_text(s, j + 1, acc \o <<s[j]>>)

is_unit_char(c) == is_ascii_alphanumeric(c) \/ c = "/" \/ c = "#"

\* parse_unit: the end (exclusive, 1-based) of the maximal run from i
RECURSIVE unit_end(_, _)
unit_end(s, i) ==
    IF i <= Len(s) /\ is_unit_char(s[i]) THEN unit_end(s, i + 1) ELSE i

CtrlChars == {"-", "*", "[", "]", "(", ")", "_", ":"}

\* the token choice of lexer(), repeated from 1-based position i until no
\* alternative matches; whitespace ends the token being scanned
RECURSIVE lex_from(_, _, _)
lex_from(s, i, toks) ==
    IF i > Len(s) THEN [toks |-> toks, end |-> i - 1]
    ELSE LET c == s[i]
             unit(e) == [tok |-> [t |-> "Unit", s |-> SubSeq(s, i, e - 1)],
                         next |-> e]
             choice(raw) ==
                 IF c = "[" /\ raw.ok
                 THEN [tok |-> [t |-> "Raw", s |-> raw.text], next |-> raw.next]
                 ELSE IF is_unit_char(c) THEN unit(unit_end(s, i))
                 ELSE IF c \in CtrlChars
                 THEN [tok |-> [t |-> "Ctrl", s |-> <<c>>], next |-> i + 1]
                 ELSE [tok |-> [t |-> "None", s |-> <<>>], next |-> i]
             repeated(x) ==
                 IF x.tok.t = "None" THEN [toks |-> toks, end |-> i - 1]
                 ELSE lex_from(s, x.next, Append(toks, x.tok))
         IN repeated(choice(parse_raw_text(s, i + 1, <<>>)))

\* lexer(..).parse(src): the tokens of the lexed prefix and its byte length
lexer(s) == lex_from(s, 1, <<>>)

(***************************************************************************)
(* parser.rs: duckwind_parser.                                             *)
(***************************************************************************)
is_segment(tok) == tok.t \in {"Unit", "Raw"}

to_parsed_unit(tok) ==
    [t |-> IF tok.t = "Unit" THEN "String" ELSE "Raw", s |-> tok.s]

\* one group: segments separated by Ctrl('-'), at least one; a separator
\* not followed by a segment is not consumed
RECURSIVE parse_group(_, _, _)
parse_group(toks, i, acc) ==
    IF i <= Len(toks) /\ is_segment(toks[i])
    THEN LET acc2 == Append(acc, to_parsed_unit(toks[i]))
         IN IF i + 2 <= Len(toks)
               /\ toks[i + 1] = [t |-> "Ctrl", s |-> <<"-">>]
               /\ is_segment(toks[i + 2])
            THEN parse_group(toks, i + 2, acc2)
            ELSE [ok |-> TRUE, group |-> acc2, next |-> i + 1]
    ELSE [ok |-> FALSE, group |-> acc, next |-> i]

\* groups separated by Ctrl(':'), at least one
RECURSIVE parse_groups(_, _, _)
parse_groups(toks, i, acc) ==
    LET separated(g, more) ==
            IF more.ok THEN more
            ELSE [ok |-> TRUE, groups |-> Append(acc, g.group), next |-> g.next]
        item(g) ==
            IF ~g.ok THEN [ok |-> FALSE, groups |-> acc, next |-> i]
            ELSE separated(g, IF g.next + 1 <= Len(toks)
                                 /\ toks[g.next] = [t |-> "Ctrl", s |-> <<":">>]
                              THEN parse_groups(toks, g.next + 1,
                                                Append(acc, g.group))
                              ELSE [ok |-> FALSE, groups |-> acc, next |-> i])
    IN item(parse_group(toks, i, <<>>))

\* the assertion on the utility group: "only last may be raw"
only_last_may_be_raw(res) ==
    \A k \in 1..(Len(res) - 1) : res[k].t = "String"

\* duckwind_parser(..).parse(toks): "ok" with the variant chains and the
\* utility, "none" when the tokens do not parse to the end, "panic" when
\* the assertion on the utility group fails
duckwind_parser(toks) ==
    LET map(x) ==
            IF ~only_last_may_be_raw(x[Len(x)])
            THEN [k |-> "panic", variants |-> <<>>, utility |-> <<>>]
            ELSE [k |-> "ok", variants |-> SubSeq(x, 1, Len(x) - 1),
                  utility |-> x[Len(x)]]
        parse(r) ==
            IF ~r.ok \/ r.next <= Len(toks)
            THEN [k |-> "none", variants |-> <<>>, utility |-> <<>>]
            ELSE map(r.groups)
    IN parse(parse_groups(toks, 1, <<>>))

(***************************************************************************)
(* config_css.rs: the configuration grammar.  A parser applied at the      *)
(* 1-based position i of the text s gives [ok, v, next]: whether it        *)
(* matched, its output and the position after the match.                   *)
(***************************************************************************)
Fail(i) == [ok |-> FALSE, v |-> <<>>, next |-> i]

\* just(lit)
just(s, i, lit) == i + Len(lit) - 1 <= Len(s) /\ SubSeq(s, i, i + Len(lit) - 1) = lit

\* any().filter(c in set).repeated(): the position after the maximal run
RECURSIVE run_end(_, _, _)
run_end(s, i, set) ==
    IF i <= Len(s) /\ s[i] \in set THEN run_end(s, i + 1, set) ELSE i

\* any().filter(c not in set).repeated()
RECURSIVE run_end_not(_, _, _)
run_end_not(s, i, set) ==
    IF i <= Len(s) /\ s[i] \notin set THEN run_end_not(s, i + 1, set) ELSE i

WhitespaceChars == {" ", "\n", "\t", "\r"}

\* lib.rs ignore_whitespace: spaces only
ignore_whitespace(s, i) == run_end(s, i, {" "})

\* lib.rs ignore_whitespace2: any whitespace
ignore_whitespace2(s, i) == run_end(s, i, WhitespaceChars)

UtilityNameChars == Lower \cup Upper \cup Digit \cup {"*", "/", "@", "-"}

\* the character class takes '-' too, so the first run is the whole name
parse_utility_name(s, i) ==
    LET collect(e) ==
            IF e > i THEN [ok |-> TRUE, v |-> SubSeq(s, i, e - 1), next |-> e]
            ELSE Fail(i)
    IN collect(run_end(s, i, UtilityNameChars))

\* parse_css_data_type: the alternatives in the order of the choice
CssDataTypeNames ==
    << <<<<"l","e","n","g","t","h">>, "Length">>, <<<<"p","e","r","c","e","n","t","a","g","e">>, "Percentage">>,
       <<<<"c","o","l","o","r">>, "Color">>, <<<<"r","a","t","i","o">>, "Ratio">>, <<<<"n","u","m","b","e","r">>, "Number">>,
       <<<<"f","r","a","c","t","i","o","n">>, "Fr">>, <<<<"i","n","t","e","g","e","r">>, "Integer">>,
       <<<<"a","b","s","o","l","u","t","e","-","s","i","z","e">>, "AbsoluteSize">>, <<<<"a","n","g","l","e">>, "Angle">>,
       <<<<"a","n","y">>, "Any">>, <<<<"p","o","s","i","t","i","o","n">>, "Position">>, <<<<"*">>, "Any">> >>

parse_css_data_type(s, i) ==
    LET first(hits) ==
            IF hits = {} THEN 0 ELSE CHOOSE n \in hits : \A m \in hits : n <= m
        to(n) ==
            IF n = 0 THEN Fail(i)
            ELSE [ok |-> TRUE, v |-> CssDataTypeNames[n][2],
                  next |-> i + Len(CssDataTypeNames[n][1])]
    IN to(first({n \in 1..Len(CssDataTypeNames) :
                    just(s, i, CssDataTypeNames[n][1])}))

\* parse_literal: "..." up to the next double quote
parse_literal(s, i) ==
    LET closed(e) ==
            IF e <= Len(s)
            THEN [ok |-> TRUE, v |-> SubSeq(s, i + 1, e - 1), next |-> e + 1]
            ELSE Fail(i)
    IN IF ~just(s, i, <<"\"">>) THEN Fail(i)
       ELSE closed(run_end_not(s, i + 1, {"\""}))

VarTemplateChars == Lower \cup Upper \cup Digit \cup {"-", "*"}

\* the text of a --VAR template: its characters without the '*' marks
RECURSIVE var_text(_)
var_text(run) ==
    IF Len(run) = 0 THEN <<>>
    ELSE (IF run[1] = "*" THEN <<>> ELSE <<run[1]>>) \o var_text(Tail(run))

\* parse_value_param: --VAR template | TYPE | [TYPE] | "LITERAL".  The
\* Target of a '*' is its offset in the input; the span of the run starts
\* after the "--"; the fold keeps the last Target.
parse_value_param(s, i) ==
    LET or(a, b) == IF a.ok THEN a ELSE b
        last_star(stars) == CHOOSE j \in stars : \A m \in stars : j >= m
        template(e, stars) ==
            IF stars = {} THEN Fail(i)
            ELSE [ok |-> TRUE,
                  v |-> [t |-> "Var", s |-> var_text(SubSeq(s, i + 2, e - 1)),
                         at |-> (last_star(stars) - 1) - (i + 1)],
                  next |-> e]
        var(e) == template(e, {j \in (i + 2)..(e - 1) : s[j] = "*"})
        typed(ty) ==
            IF ty.ok
            THEN [ok |-> TRUE, v |-> [t |-> "Type", s |-> ty.v, at |-> 0],
                  next |-> ty.next]
            ELSE Fail(i)
        arbitrary(arb) ==
            IF arb.ok /\ just(s, arb.next, <<"]">>)
            THEN [ok |-> TRUE, v |-> [t |-> "ArbType", s |-> arb.v, at |-> 0],
                  next |-> arb.next + 1]
            ELSE Fail(i)
        literal(lit) ==
            IF lit.ok
            THEN [ok |-> TRUE, v |-> [t |-> "Literal", s |-> lit.v, at |-> 0],
                  next |-> lit.next]
            ELSE Fail(i)
        data_type(at) == parse_css_data_type(s, at)
    IN or(IF just(s, i, <<"-","-">>) THEN var(run_end(s, i + 2, VarTemplateChars))
          ELSE Fail(i),
          or(typed(data_type(i)),
             or(IF just(s, i, <<"[">>) THEN arbitrary(data_type(i + 1)) ELSE Fail(i),
                literal(parse_literal(s, i)))))

\* parse_value_param().separated_by(just(",").then(ignore_whitespace()))
RECURSIVE value_params(_, _, _)
value_params(s, i, acc) ==
    LET separated(p, more) ==
            IF more.ok THEN more
            ELSE [ok |-> TRUE, v |-> Append(acc, p.v), next |-> p.next]
        item(p) ==
            IF ~p.ok THEN [ok |-> FALSE, v |-> acc, next |-> i]
            ELSE separated(p, IF just(s, p.next, <<",">>)
                              THEN value_params(s, ignore_whitespace(s, p.next + 1),
                                                Append(acc, p.v))
                              ELSE [ok |-> FALSE, v |-> acc, next |-> i])
    IN item(parse_value_param(s, i))

\* parse_value_call: --value( PARAM (, PARAM)* ); the list may be empty
parse_value_call(s, i) ==
    LET close(params, after) ==
            IF just(s, after, <<")">>)
            THEN [ok |-> TRUE, v |-> params, next |-> after + 1]
            ELSE Fail(i)
        list(ps) == IF ps.ok THEN close(ps.v, ps.next) ELSE close(<<>>, i + 8)
    IN IF ~just(s, i, <<"-","-","v","a","l","u","e","(">>) THEN Fail(i)
       ELSE list(value_params(s, i + 8, <<>>))

\* parse_braces_into_string: a balanced ( ... ) group; the recursion's map
\* wraps an inner group, which already carries its parentheses, once more
RECURSIVE parse_braces_into_string(_, _, _)
parse_braces_into_string(s, j, acc) ==
    IF j > Len(s) THEN [ok |-> FALSE, v |-> <<>>, next |-> j]
    ELSE IF s[j] = ")" THEN [ok |-> TRUE, v |-> <<"(">> \o acc \o <<")">>, next |-> j + 1]
    ELSE IF s[j] = "("
         THEN LET nested(inner) ==
                      IF inner.ok
                      THEN parse_braces_into_string(s, inner.next,
                               acc \o <<"(">> \o inner.v \o <<")">>)
                      ELSE parse_braces_into_string(s, j + 1, acc \o <<"(">>)
              IN nested(parse_braces_into_string(s, j + 1, <<>>))
    ELSE parse_braces_into_string(s, j + 1, acc \o <<s[j]>>)

\* the default value of @tw-property: pieces that start neither with ';'
\* nor with whitespace, each a balanced ( ... ) group or one character
RECURSIVE property_default(_, _, _)
property_default(s, j, acc) ==
    LET piece(br) ==
            IF br.ok THEN property_default(s, br.next, acc \o br.v)
            ELSE property_default(s, j + 1, acc \o <<s[j]>>)
    IN IF j > Len(s) \/ s[j] = ";" \/ s[j] \in WhitespaceChars
       THEN [v |-> acc, next |-> j]
       ELSE piece(IF s[j] = "(" THEN parse_braces_into_string(s, j + 1, <<>>)
                  ELSE Fail(j))

None == [some |-> FALSE, v |-> <<>>]
Some(x) == [some |-> TRUE, v |-> x]

\* @tw-property NAME [DEFAULT] [SYNTAX]
parse_tw_property(s, i) ==
    LET word_end(at) == run_end_not(s, at, WhitespaceChars \cup {";"})
        syntax(name, default_value, y0, y1) ==
            [ok |-> TRUE,
             v |-> [name |-> name,
                    default_value |-> default_value,
                    syntax |-> IF y1 > y0 THEN Some(SubSeq(s, y0, y1 - 1)) ELSE None],
             next |-> IF y1 > y0 THEN y1 ELSE y0]
        after_default(name, default_value, y0) ==
            syntax(name, default_value, y0, word_end(y0))
        default(name, d0, d) ==
            after_default(name, IF d.next > d0 THEN Some(d.v) ELSE None,
                          ignore_whitespace2(s, d.next))
        after_name(name, d0) == default(name, d0, property_default(s, d0, <<>>))
        name(n0, n1) ==
            IF n1 = n0 THEN Fail(i)
            ELSE after_name(SubSeq(s, n0, n1 - 1), ignore_whitespace2(s, n1))
        at_name(n0) == name(n0, word_end(n0))
    IN IF ~just(s, i, <<"@","t","w","-","p","r","o","p","e","r","t","y">>) THEN Fail(i)
       ELSE at_name(ignore_whitespace2(s, i + 12))

RawChar(c) == [t |-> "Char", c |-> c, params |-> <<>>, property |-> <<>>]

\* parse_utility_text after the opening "{": the raw parts up to the
\* closing "}" (nested braces kept as characters)
RECURSIVE parse_utility_text(_, _, _)
parse_utility_text(s, j, acc) ==
    LET char ==
            IF j <= Len(s) /\ s[j] # "}"
            THEN parse_utility_text(s, j + 1, Append(acc, RawChar(s[j])))
            ELSE IF just(s, j, <<"}">>) THEN [ok |-> TRUE, v |-> acc, next |-> j + 1]
            ELSE Fail(j)
        value(call) ==
            IF call.ok
            THEN parse_utility_text(s, call.next,
                     Append(acc, [t |-> "ValueCall", c |-> "", params |-> call.v,
                                  property |-> <<>>]))
            ELSE char
        braces(nested) ==
            IF nested.ok
            THEN parse_utility_text(s, nested.next,
                     acc \o <<RawChar("{")>> \o nested.v \o <<RawChar("}")>>)
            ELSE value(parse_value_call(s, j))
        property(prop) ==
            IF prop.ok
            THEN parse_utility_text(s, prop.next,
                     Append(acc, [t |-> "Property", c |-> "", params |-> <<>>,
                                  property |-> prop.v]))
            ELSE braces(IF just(s, j, <<"{">>) THEN parse_utility_text(s, j + 1, <<>>)
                        ELSE Fail(j))
    IN property(parse_tw_property(s, j))

\* the map of parse_utility: adjacent characters are coalesced into String
\* parts, value calls become parts, properties are collected aside
RECURSIVE utility_parts(_, _, _)
utility_parts(content, buf, parts) ==
    LET flush == IF Len(buf) > 0
                 THEN Append(parts, [t |-> "String", s |-> buf, params |-> <<>>])
                 ELSE parts
        part(c) ==
            IF c.t = "Char" THEN utility_parts(Tail(content), Append(buf, c.c), parts)
            ELSE IF c.t = "ValueCall"
            THEN utility_parts(Tail(content), <<>>,
                     Append(flush, [t |-> "ValueCall", s |-> <<>>,
                                    params |-> c.params]))
            ELSE utility_parts(Tail(content), buf, parts)
    IN IF Len(content) = 0 THEN flush ELSE part(content[1])

RECURSIVE utility_properties(_)
utility_properties(content) ==
    IF Len(content) = 0 THEN <<>>
    ELSE (IF content[1].t = "Property" THEN <<content[1].property>> ELSE <<>>)
         \o utility_properties(Tail(content))

\* @utility NAME { BODY }
parse_utility(s, i) ==
    LET map(name, has_value, content) ==
            [ok |-> TRUE,
             v |-> [name |-> IF has_value THEN Slice(name, 0, Len(name) - 2)
                             ELSE name,
                    parts |-> utility_parts(content.v, <<>>, <<>>),
                    has_value |-> has_value,
                    properties |-> utility_properties(content.v)],
             next |-> content.next]
        body(name, content) ==
            IF content.ok THEN map(name, ends_with(name, <<"-","*">>), content)
            ELSE Fail(i)
        open(name, at) ==
            IF just(s, at, <<"{">>) THEN body(name, parse_utility_text(s, at + 1, <<>>))
            ELSE Fail(i)
        named(name) ==
            IF name.ok THEN open(name.v, ignore_whitespace(s, name.next))
            ELSE Fail(i)
    IN IF ~just(s, i, <<"@","u","t","i","l","i","t","y">>) THEN Fail(i)
       ELSE named(parse_utility_name(s, ignore_whitespace(s, i + 8)))

\* variant_rec_text after the opening "{": characters, nested braces kept,
\* each "@slot;" a Target holding its 0-based offset in the input
RECURSIVE variant_rec_text(_, _, _)
variant_rec_text(s, j, acc) ==
    LET char ==
            IF just(s, j, <<"@","s","l","o","t",";">>)
            THEN variant_rec_text(s, j + 6,
                     Append(acc, [t |-> "Target", c |-> "", idx |-> j - 1]))
            ELSE IF j <= Len(s) /\ s[j] # "}"
            THEN variant_rec_text(s, j + 1,
                     Append(acc, [t |-> "Char", c |-> s[j], idx |-> 0]))
            ELSE IF just(s, j, <<"}">>) THEN [ok |-> TRUE, v |-> acc, next |-> j + 1]
            ELSE Fail(j)
        braces(nested) ==
            IF nested.ok
            THEN variant_rec_text(s, nested.next,
                     acc \o <<[t |-> "Char", c |-> "{", idx |-> 0]>> \o nested.v
                         \o <<[t |-> "Char", c |-> "}", idx |-> 0]>>)
            ELSE char
    IN braces(IF just(s, j, <<"{">>) THEN variant_rec_text(s, j + 1, <<>>)
              ELSE Fail(j))

\* variant_short_rec_text after the opening "(": characters, nested
\* parentheses kept
RECURSIVE variant_short_rec_text(_, _, _)
variant_short_rec_text(s, j, acc) ==
    LET char ==
            IF j <= Len(s) /\ s[j] # ")"
            THEN variant_short_rec_text(s, j + 1, Append(acc, s[j]))
            ELSE IF just(s, j, <<")">>) THEN [ok |-> TRUE, v |-> acc, next |-> j + 1]
            ELSE Fail(j)
        braces(nested) ==
            IF nested.ok
            THEN variant_short_rec_text(s, nested.next,
                     acc \o <<"(">> \o nested.v \o <<")">>)
            ELSE char
    IN braces(IF just(s, j, <<"(">>) THEN variant_short_rec_text(s, j + 1, <<>>)
              ELSE Fail(j))

\* s_buf of the long form: the characters of the units
RECURSIVE units_text(_)
units_text(units) ==
    IF Len(units) = 0 THEN <<>>
    ELSE (IF units[1].t = "Char" THEN <<units[1].c>> ELSE <<>>)
         \o units_text(Tail(units))

\* target of the long form: the offset of the last Target unit
units_target(units) ==
    LET last_of(at) == units[CHOOSE k \in at : \A m \in at : k >= m].idx
    IN last_of({k \in 1..Len(units) : units[k].t = "Target"})

has_target(units) == \E k \in 1..Len(units) : units[k].t = "Target"

\* variant_parser: the long form @custom-variant NAME { BODY }, which is
\* rejected without an @slot; marker, else the short form
\* @custom-variant NAME ( SELECTOR );
variant_parser(s, i) ==
    LET a_len == 15
        short_form(name, short) ==
            IF short.ok /\ just(s, short.next, <<";">>)
            THEN [ok |-> TRUE,
                  v |-> [name |-> name.v, body |-> short.v \o <<" ","{","\n","\n","}">>,
                         target |-> Len(short.v) + 2, is_short |-> TRUE],
                  next |-> short.next + 1]
            ELSE Fail(i)
        long_form(name, b_len, d_end, long) ==
            IF long.ok /\ has_target(long.v)
            THEN [ok |-> TRUE,
                  v |-> [name |-> name.v, body |-> units_text(long.v),
                         target |-> units_target(long.v)
                                    - (a_len + b_len + (d_end - name.next) + 1
                                       + Len(name.v)),
                         is_short |-> FALSE],
                  next |-> long.next]
            ELSE short_form(name, IF just(s, d_end, <<"(">>)
                                  THEN variant_short_rec_text(s, d_end + 1, <<>>)
                                  ELSE Fail(i))
        body(name, b_len, d_end) ==
            long_form(name, b_len, d_end,
                      IF just(s, d_end, <<"{">>) THEN variant_rec_text(s, d_end + 1, <<>>)
                      ELSE Fail(i))
        named(name, b_len) ==
            IF ~name.ok THEN Fail(i)
            ELSE body(name, b_len, ignore_whitespace2(s, name.next))
        at_name(b_end) ==
            named(parse_utility_name(s, b_end), b_end - (i + a_len))
    IN IF ~just(s, i, <<"@","c","u","s","t","o","m","-","v","a","r","i","a","n","t">>) THEN Fail(i)
       ELSE at_name(ignore_whitespace2(s, i + a_len))

\* Variant::instantiate done wrongly: the inner body is put after the
\* body, whatever the target (C18 must fail for it)
Variant_instantiate_append(variant, target) == variant.body \o target

\* Variant::instantiate: the body with the inner body inserted at target
Variant_instantiate(variant, target) == insert_str(variant.body, variant.target, target)

(***************************************************************************)
(* Maps (HashMap<String, String>) as functions.                            *)
(***************************************************************************)
EmptyMap == [k \in {} |-> <<>>]

\* HashMap::insert
map_insert(m, k, v) == [x \in DOMAIN m \cup {k} |-> IF x = k THEN v ELSE m[x]]

\* HashMap::extend done wrongly: a name that is already present keeps its
\* value (C5 must fail for it)
map_extend_keep(m, other) ==
    [x \in DOMAIN m \cup DOMAIN other |-> IF x \in DOMAIN m THEN m[x] ELSE other[x]]

\* HashMap::extend: the entries of other overwrite those of m
map_extend(m, other) ==
    [x \in DOMAIN m \cup DOMAIN other |-> IF x \in DOMAIN other THEN other[x] ELSE m[x]]

VarNameChars == Lower \cup Upper \cup Digit \cup {"-"}

\* parse_var: --name: value;
parse_var(s, i) ==
    LET value(n1, v0, v1) ==
            IF v1 > v0 /\ just(s, v1, <<";">>)
            THEN [ok |-> TRUE,
                  v |-> [t |-> "Variable", name |-> SubSeq(s, i + 2, n1 - 1),
                         value |-> SubSeq(s, v0, v1 - 1)],
                  next |-> v1 + 1]
            ELSE Fail(i)
        at_value(n1, v0) == value(n1, v0, run_end_not(s, v0, {";", "\n", "\t", "\r"}))
        colon(n1, at) ==
            IF n1 > i + 2 /\ just(s, at, <<":">>)
            THEN at_value(n1, ignore_whitespace(s, at + 1))
            ELSE Fail(i)
        name(n1) == colon(n1, ignore_whitespace(s, n1))
    IN IF ~just(s, i, <<"-","-">>) THEN Fail(i)
       ELSE name(run_end(s, i + 2, VarNameChars))

\* keyframes_text_parser after the opening "{": the block with its braces
RECURSIVE keyframes_text_parser(_, _, _)
keyframes_text_parser(s, j, acc) ==
    LET char ==
            IF j <= Len(s) /\ s[j] # "}"
            THEN keyframes_text_parser(s, j + 1, Append(acc, s[j]))
            ELSE IF just(s, j, <<"}">>)
            THEN [ok |-> TRUE, v |-> <<"{">> \o acc \o <<"}">>, next |-> j + 1]
            ELSE Fail(j)
        braces(nested) ==
            IF nested.ok THEN keyframes_text_parser(s, nested.next, acc \o nested.v)
            ELSE char
    IN braces(IF just(s, j, <<"{">>) THEN keyframes_text_parser(s, j + 1, <<>>)
              ELSE Fail(j))

\* parse_keyframes: @keyframes NAME { ... }
parse_keyframes(s, i) ==
    LET map(name, body) ==
            IF body.ok
            THEN [ok |-> TRUE,
                  v |-> [t |-> "Keyframes", name |-> name.v, value |-> body.v],
                  next |-> body.next]
            ELSE Fail(i)
        open(name, at) ==
            map(name, IF just(s, at, <<"{">>) THEN keyframes_text_parser(s, at + 1, <<>>)
                      ELSE Fail(i))
        named(name) ==
            IF name.ok THEN open(name, ignore_whitespace2(s, name.next))
            ELSE Fail(i)
    IN IF ~just(s, i, <<"@","k","e","y","f","r","a","m","e","s">>) THEN Fail(i)
       ELSE named(parse_utility_name(s, ignore_whitespace2(s, i + 10)))

\* choice((parse_var, parse_keyframes)).padded().repeated()
RECURSIVE theme_units(_, _, _)
theme_units(s, i, acc) ==
    LET repeated(unit) ==
            IF unit.ok
            THEN theme_units(s, ignore_whitespace2(s, unit.next), Append(acc, unit.v))
            ELSE [v |-> acc, next |-> i]
        choice(j, var) == repeated(IF var.ok THEN var ELSE parse_keyframes(s, j))
        padded(j) == choice(j, parse_var(s, j))
    IN padded(ignore_whitespace2(s, i))

\* the fold of parse_theme: insert every unit in order into empty maps
RECURSIVE theme_fold(_, _)
theme_fold(units, acc) ==
    IF Len(units) = 0 THEN acc
    ELSE theme_fold(Tail(units),
             IF units[1].t = "Variable"
             THEN [acc EXCEPT !.vars = map_insert(acc.vars, units[1].name, units[1].value)]
             ELSE [acc EXCEPT !.keyframes =
                       map_insert(acc.keyframes, units[1].name, units[1].value)])

\* parse_theme: @theme { (VAR-DECL | KEYFRAMES)* }
parse_theme(s, i) ==
    LET close(units, at) ==
            IF just(s, at, <<"}">>)
            THEN [ok |-> TRUE,
                  v |-> theme_fold(units.v, [vars |-> EmptyMap, keyframes |-> EmptyMap]),
                  next |-> ignore_whitespace2(s, at + 1)]
            ELSE Fail(i)
        body(units) == close(units, ignore_whitespace2(s, units.next))
        open(at) ==
            IF just(s, at, <<"{">>)
            THEN body(theme_units(s, ignore_whitespace2(s, at + 1), <<>>))
            ELSE Fail(i)
    IN IF ~just(s, i, <<"@","t","h","e","m","e">>) THEN Fail(i)
       ELSE open(ignore_whitespace(s, i + 6))

\* the declarations of config_parser: choice((utility, variant, theme))
\* .padded().repeated(), each with the span start of the declaration; the
\* repetition ends at the first declaration that does not parse
RECURSIVE config_units(_, _, _)
config_units(s, i, acc) ==
    LET repeated(j, kind, unit) ==
            config_units(s, ignore_whitespace2(s, unit.next),
                Append(acc, [t |-> kind, v |-> unit.v, start |-> j - 1]))
        theme_unit(j, t) ==
            IF t.ok THEN repeated(j, "Theme", t) ELSE [v |-> acc, next |-> i]
        variant_unit(j, v) ==
            IF v.ok THEN repeated(j, "Variant", v)
            ELSE theme_unit(j, parse_theme(s, j))
        utility_unit(j, u) ==
            IF u.ok THEN repeated(j, "Utility", u)
            ELSE variant_unit(j, variant_parser(s, j))
        padded(j) == utility_unit(j, parse_utility(s, j))
    IN padded(ignore_whitespace2(s, i))

\* the map of config_parser: the units sorted into a UserConfig; the
\* target of a long-form variant is made relative to its declaration
RECURSIVE user_config(_, _)
user_config(units, res) ==
    IF Len(units) = 0 THEN res
    ELSE LET u == units[1]
         IN user_config(Tail(units),
                IF u.t = "Utility"
                THEN [res EXCEPT !.utilities = Append(@, u.v)]
                ELSE IF u.t = "Variant"
                THEN [res EXCEPT !.variants =
                         Append(@, IF ~u.v.is_short
                                   THEN [u.v EXCEPT !.target = @ - u.start]
                                   ELSE u.v)]
                ELSE [res EXCEPT !.themes = Append(@, u.v)])

\* config_parser().parse(s).into_result().ok(): the UserConfig when the
\* declarations reach the end of the text, None otherwise
config_parser(s) ==
    LET parse(units) ==
            IF units.next > Len(s)
            THEN Some(user_config(units.v,
                         [utilities |-> <<>>, variants |-> <<>>, themes |-> <<>>]))
            ELSE None
    IN parse(config_units(s, 1, <<>>))

(***************************************************************************)
(* css_data_types.rs: the literal classifier.  A prefix parser gives the   *)
(* position after its match, 0 when it does not match.  Candidates hold    *)
(* no whitespace, so a position is a single keyword, length or percentage. *)
(***************************************************************************)
\* choice((just(l1), just(l2), ...)): the first literal that matches
first_just(s, i, lits) ==
    LET first(hits) ==
            IF hits = {} THEN 0
            ELSE i + Len(lits[CHOOSE n \in hits : \A m \in hits : n <= m])
    IN first({n \in 1..Len(lits) : just(s, i, lits[n])})

\* a run of at least one character of set, then one of the literals
run_then(s, set, lits) ==
    LET then(e) == IF e > 1 THEN first_just(s, e, lits) ELSE 0
    IN then(run_end(s, 1, set))

LengthUnits ==
    <<<<"c","a","p">>, <<"c","h">>, <<"e","m">>, <<"e","x">>, <<"i","c">>, <<"l","h">>, <<"r","c","a","p">>, <<"r","c","h">>, <<"r","e","m">>, <<"r","e","x">>,
      <<"r","i","c">>, <<"r","l","h">>, <<"v","h">>, <<"v","w">>, <<"v","m","a","x">>, <<"v","m","i","n">>, <<"v","b">>, <<"v","i">>, <<"p","x">>, <<"c","m">>,
      <<"m","m">>, <<"Q">>, <<"i","n">>, <<"p","c">>, <<"p","t">>>>

length_parser(s) == run_then(s, Digit \cup {".", "-"}, LengthUnits)

percentage_parser(s) == run_then(s, Digit \cup {".", "-"}, <<<<"%">>>>)

fr_parser(s) == run_then(s, Digit \cup {"."}, <<<<"f","r">>>>)

angle_parser(s) == run_then(s, Digit \cup {"."}, <<<<"d","e","g">>, <<"g","r","a","d">>, <<"r","a","d">>, <<"t","u","r","n">>>>)

integer_parser(s) ==
    LET at_least_1(e) == IF e > 1 THEN e ELSE 0
    IN at_least_1(run_end(s, 1, Digit \cup {"-"}))

number_parser(s) ==
    LET filter(e) == IF e > 1 /\ contains(SubSeq(s, 1, e - 1), <<".">>) THEN e ELSE 0
    IN filter(run_end(s, 1, Digit \cup {"-", "."}))

ratio_parser(s) ==
    LET digits(at) == run_end(s, at, Digit \cup {"."})
        spaces(at) == run_end(s, at, {" "})
        second(b0, b1) == IF b1 > b0 THEN b1 ELSE 0
        after_slash(b0) == second(b0, digits(b0))
        slash(at) == IF just(s, at, <<"/">>) THEN after_slash(spaces(at + 1)) ELSE 0
        first(a) == IF a > 1 THEN slash(spaces(a)) ELSE 0
    IN first(digits(1))

absolute_size_parser(s) ==
    first_just(s, 1, <<<<"x","x","-","s","m","a","l","l">>, <<"x","-","s","m","a","l","l">>, <<"s","m","a","l","l">>, <<"m","e","d","i","u","m">>, <<"l","a","r","g","e">>,
                       <<"x","-","l","a","r","g","e">>, <<"x","x","-","l","a","r","g","e">>, <<"x","x","x","-","l","a","r","g","e">>>>)

HexDigit == Digit \cup {"a","b","c","d","e","f","A","B","C","D","E","F"}

NamedColors ==
    <<<<"b","l","a","c","k">>, <<"s","i","l","v","e","r">>, <<"g","r","a","y">>, <<"w","h","i","t","e">>, <<"m","a","r","o","o","n">>, <<"r","e","d">>, <<"p","u","r","p","l","e">>,
      <<"f","u","c","h","s","i","a">>, <<"g","r","e","e","n">>, <<"l","i","m","e">>, <<"o","l","i","v","e">>, <<"y","e","l","l","o","w">>, <<"n","a","v","y">>, <<"b","l","u","e">>,
      <<"t","e","a","l">>, <<"a","q","u","a">>>>

ColorFunctions ==
    <<<<"r","g","b">>, <<"h","s","l">>, <<"h","w","b">>, <<"l","a","b">>, <<"l","c","h">>, <<"o","k","l","a","b">>, <<"o","k","l","c","h">>, <<"c","o","l","o","r">>,
      <<"d","e","v","i","c","e","-","c","y","m","k">>, <<"c","o","l","o","r","-","m","i","x">>, <<"c","o","n","t","r","a","s","t","-","c","o","l","o","r">>, <<"l","i","g","h","t","-","d","a","r","k">>>>

\* nested_braces_parser after the opening "(": the position after the
\* matching ")"
RECURSIVE nested_braces_end(_, _)
nested_braces_end(s, j) ==
    LET nested(inner) == nested_braces_end(s, IF inner > 0 THEN inner ELSE j + 1)
    IN IF j > Len(s) THEN 0
       ELSE IF s[j] = ")" THEN j + 1
       ELSE IF s[j] = "(" THEN nested(nested_braces_end(s, j + 1))
       ELSE nested_braces_end(s, j + 1)

color_parser(s) ==
    LET function(func) ==
            IF func > 0 /\ just(s, func, <<"(">>) THEN nested_braces_end(s, func + 1)
            ELSE 0
        name(named) ==
            IF named > 0 THEN named ELSE function(first_just(s, 1, ColorFunctions))
        hex(e) ==
            IF just(s, 1, <<"#">>) /\ e - 2 >= 6 THEN 8
            ELSE name(first_just(s, 1, NamedColors))
    IN hex(run_end(s, 2, HexDigit))

\* single_position_parser: keyword, length or percentage
position_parser(s) ==
    LET length(len) ==
            IF len > 0 THEN [next |-> len, tag |-> "Length"]
            ELSE [next |-> percentage_parser(s), tag |-> "Percentage"]
        keyword(kw) ==
            IF kw > 0 THEN [next |-> kw, tag |-> "Position"]
            ELSE length(length_parser(s))
    IN keyword(first_just(s, 1, <<<<"l","e","f","t">>, <<"r","i","g","h","t">>, <<"t","o","p">>, <<"b","o","t","t","o","m">>, <<"c","e","n","t","e","r">>>>))

\* data_type_parser().parse(value).into_output().unwrap_or(Other(value)):
\* the first alternative that matches a prefix decides; the parse fails,
\* giving Other, unless that match reaches the end of the value
data_type_parser(s) ==
    LET first(alts, hits) ==
            IF hits = {} THEN 0 ELSE CHOOSE n \in hits : \A m \in hits : n <= m
        parse(alts, n) ==
            IF n > 0 /\ alts[n].next = Len(s) + 1 THEN alts[n].tag ELSE "Other"
        choice(alts) ==
            parse(alts, first(alts, {n \in 1..Len(alts) : alts[n].next > 0}))
    IN choice(<< position_parser(s),
                 [next |-> ratio_parser(s), tag |-> "Ratio"],
                 [next |-> fr_parser(s), tag |-> "Fr"],
                 [next |-> color_parser(s), tag |-> "Color"],
                 [next |-> angle_parser(s), tag |-> "Angle"],
                 [next |-> length_parser(s), tag |-> "Length"],
                 [next |-> number_parser(s), tag |-> "Number"],
                 [next |-> percentage_parser(s), tag |-> "Percentage"],
                 [next |-> integer_parser(s), tag |-> "Integer"],
                 [next |-> absolute_size_parser(s), tag |-> "AbsoluteSize"],
                 [next |-> IF just(s, 1, <<"*">>) THEN 2 ELSE 0, tag |-> "Any"] >>)

\* css_literal_matches done wrongly: Integer accepts a Number as Number
\* accepts an Integer (C21 must fail for it)
css_literal_matches_both_ways(t, tag) ==
    t = "Any" \/ t = tag \/ {t, tag} = {"Number", "Integer"}

\* ValueType::css_literal_matches
css_literal_matches(t, tag) ==
    IF t = "Any" THEN TRUE
    ELSE IF t = "Number" THEN tag \in {"Number", "Integer"}
    ELSE t = tag

(***************************************************************************)
(* config_css.rs: insert_alpha.                                            *)
(***************************************************************************)
DigitValue(c) == CHOOSE n \in 0..9 : <<"0","1","2","3","4","5","6","7","8","9">>[n + 1] = c

RECURSIVE parse_number(_, _)
parse_number(s, acc) ==
    IF Len(s) = 0 THEN acc ELSE parse_number(Tail(s), acc * 10 + DigitValue(s[1]))

HexDigits == <<"0","1","2","3","4","5","6","7","8","9","A","B","C","D","E","F">>

\* format!("{:02X}", n) for 0 <= n <= 255
format_02X(n) == <<HexDigits[(n \div 16) + 1], HexDigits[(n % 16) + 1]>>

\* ((255_f32 / 100_f32) * pct).clamp(0, 255).round() for a whole pct
alpha_channel(pct) ==
    LET v == (255 * pct + 50) \div 100 IN IF v > 255 THEN 255 ELSE v

\* expand_3_digit_hex: the first three characters, each doubled
expand_3_digit_hex(hex) ==
    LET doubled(h) == [k \in 1..(2 * Len(h)) |-> h[(k + 1) \div 2]]
    IN doubled(SubSeq(hex, 1, IF Len(hex) < 3 THEN Len(hex) ELSE 3))

trim_ascii_start(s) == SliceFrom(s, run_end(s, 1, WhitespaceChars) - 1)

AlphaFunctions == <<<<"r","g","b">>, <<"h","s","l">>, <<"l","a","b">>, <<"l","c","h">>, <<"o","k","l","a","b">>, <<"o","k","l","c","h">>, <<"c","o","l","o","r">>>>

\* insert_alpha(color, alpha): alpha is the modifier text followed by "%".
\* The percentage parses when it is a run of digits.
insert_alpha(color0, alpha) ==
    LET parses(pct_text) ==
            Len(pct_text) > 0 /\ \A k \in 1..Len(pct_text) : pct_text[k] \in Digit
        hex(pct_text) ==
            format_02X(IF alpha = <<"1","0","0","%">> THEN 255
                       ELSE IF alpha = <<"0","%">> THEN 0
                       ELSE alpha_channel(parse_number(pct_text, 0)))
        hex_color(color, pct_text) ==
            IF ~parses(pct_text) THEN None
            ELSE IF Len(color) = 4
            THEN Some(<<"#">> \o expand_3_digit_hex(SliceFrom(color, 1)) \o hex(pct_text))
            ELSE IF Len(color) = 7 THEN Some(<<"#">> \o color \o hex(pct_text))
            ELSE None
        function(color, closing_brace) ==
            IF closing_brace >= 0
            THEN Some(insert_str(color, closing_brace, <<" ","/"," ">> \o alpha))
            ELSE None
        trimmed(color) ==
            IF starts_with(color, <<"#">>)
            THEN hex_color(color, Slice(alpha, 0, Len(alpha) - 1))
            ELSE IF first_just(color, 1, AlphaFunctions) > 0 /\ ~contains(color, <<"/">>)
            THEN function(color, rfind(color, <<")">>))
            ELSE None
    IN trimmed(trim_ascii_start(color0))

(***************************************************************************)
(* config_css.rs: ValueUsage::literal_matches and Utility::instantiate.    *)
(***************************************************************************)
NoParam == [t |-> "None", s |-> <<>>]

\* ValueUsage::literal_matches: k = "none" for None, "some" for
\* Some(replacement) with replacement an Option, "panic" when the insert
\* offset of a Var lies beyond its template
literal_matches(p, th, value, tag, special_param, is_arb) ==
    LET no == [k |-> "none", r |-> None]
        plain == [k |-> "some", r |-> None]
        alpha(color, otherwise) ==
            IF special_param.t = "Transparency" /\ color.some
            THEN [k |-> "some", r |-> color]
            ELSE otherwise
        found(v) == alpha(insert_alpha(v, special_param.s), [k |-> "some", r |-> Some(v)])
        var(to_check) ==
            IF to_check \in DOMAIN th.vars THEN found(th.vars[to_check]) ELSE no
    IN IF p.t = "Type" /\ ~is_arb /\ css_literal_matches(p.s, tag)
       THEN IF tag = "Color"
            THEN alpha(IF special_param.t = "Transparency"
                       THEN insert_alpha(value, special_param.s) ELSE None, plain)
            ELSE plain
       ELSE IF p.t = "ArbType" /\ is_arb /\ css_literal_matches(p.s, tag) THEN plain
       ELSE IF p.t = "Literal"
       THEN IF tag = "Other" /\ value = p.s THEN plain ELSE no
       ELSE IF p.t = "Var"
       THEN IF p.at > Len(p.s) THEN [k |-> "panic", r |-> None]
            ELSE var(insert_str(p.s, p.at, value))
       ELSE no

\* params.iter().find_map(literal_matches): the first parameter that
\* matches (or panics)
RECURSIVE find_map_matches(_, _, _, _, _, _)
find_map_matches(params, th, value, tag, special_param, is_arb) ==
    LET first(m) ==
            IF m.k # "none" THEN m
            ELSE find_map_matches(Tail(params), th, value, tag, special_param, is_arb)
    IN IF Len(params) = 0 THEN [k |-> "none", r |-> None]
       ELSE first(literal_matches(params[1], th, value, tag, special_param, is_arb))

\* replacement.unwrap_or_else(|| value.to_string())
unwrap_or_value(m, value) == IF m.r.some THEN m.r.v ELSE value

\* "Find start of line" done wrongly: the search does not stop at the
\* newline, so the lines before the matched one are kept (C30 must fail
\* for it)
RECURSIVE find_start_of_line_uncut(_, _, _, _, _, _, _, _)
find_start_of_line_uncut(parts, i_back, res, th, value, tag, special_param, is_arb) ==
    LET back(res2) ==
            IF i_back = 0 THEN [k |-> "some", s |-> res2]
            ELSE find_start_of_line_uncut(parts, i_back - 1, res2, th, value, tag,
                                          special_param, is_arb)
        value_call(m) ==
            IF m.k # "some" THEN [k |-> m.k, s |-> res]
            ELSE back(unwrap_or_value(m, value) \o res)
        at(current) ==
            IF current.t = "String" THEN back(current.s \o res)
            ELSE value_call(find_map_matches(current.params, th, value, tag,
                                             special_param, is_arb))
    IN at(parts[i_back + 1])

\* "Find start of line": from part i_back (0-based) backwards to the last
\* newline of a String part; a ValueCall on the way must match too
RECURSIVE find_start_of_line(_, _, _, _, _, _, _, _)
find_start_of_line(parts, i_back, res, th, value, tag, special_param, is_arb) ==
    LET back(res2) ==
            IF i_back = 0 THEN [k |-> "some", s |-> res2]
            ELSE find_start_of_line(parts, i_back - 1, res2, th, value, tag,
                                    special_param, is_arb)
        string(current, newline) ==
            IF newline >= 0
            THEN [k |-> "some", s |-> SliceFrom(current.s, newline + 1) \o res]
            ELSE back(current.s \o res)
        value_call(m) ==
            IF m.k # "some" THEN [k |-> m.k, s |-> res]
            ELSE back(unwrap_or_value(m, value) \o res)
        at(current) ==
            IF current.t = "String" THEN string(current, rfind(current.s, <<"\n">>))
            ELSE value_call(find_map_matches(current.params, th, value, tag,
                                             special_param, is_arb))
    IN at(parts[i_back + 1])

\* "Find end of line" done wrongly: a ValueCall on the way that does not
\* match is skipped instead of leaving the line unsatisfied (C11 must fail
\* for it)
RECURSIVE find_end_of_line_lenient(_, _, _, _, _, _, _, _)
find_end_of_line_lenient(parts, i_forward, res, th, value, tag, special_param, is_arb) ==
    LET forward(res2) ==
            find_end_of_line_lenient(parts, i_forward + 1, res2, th, value, tag,
                                     special_param, is_arb)
        string(current, newline) ==
            IF newline >= 0
            THEN [k |-> "some", s |-> res \o Slice(current.s, 0, newline)]
            ELSE forward(res \o current.s)
        value_call(m) ==
            IF m.k = "panic" THEN [k |-> m.k, s |-> res]
            ELSE IF m.k = "none" THEN forward(res)
            ELSE forward(res \o unwrap_or_value(m, value))
        at(current) ==
            IF current.t = "String" THEN string(current, find(current.s, <<"\n">>))
            ELSE value_call(find_map_matches(current.params, th, value, tag,
                                             special_param, is_arb))
    IN IF i_forward >= Len(parts) THEN [k |-> "some", s |-> res]
       ELSE at(parts[i_forward + 1])

\* "Find end of line": from part i_forward (0-based) forwards to the first
\* newline of a String part; a ValueCall on the way must match too
RECURSIVE find_end_of_line(_, _, _, _, _, _, _, _)
find_end_of_line(parts, i_forward, res, th, value, tag, special_param, is_arb) ==
    LET forward(res2) ==
            find_end_of_line(parts, i_forward + 1, res2, th, value, tag,
                             special_param, is_arb)
        string(current, newline) ==
            IF newline >= 0
            THEN [k |-> "some", s |-> res \o Slice(current.s, 0, newline)]
            ELSE forward(res \o current.s)
        value_call(m) ==
            IF m.k # "some" THEN [k |-> m.k, s |-> res]
            ELSE forward(res \o unwrap_or_value(m, value))
        at(current) ==
            IF current.t = "String" THEN string(current, find(current.s, <<"\n">>))
            ELSE value_call(find_map_matches(current.params, th, value, tag,
                                             special_param, is_arb))
    IN IF i_forward >= Len(parts) THEN [k |-> "some", s |-> res]
       ELSE at(parts[i_forward + 1])

\* the 'outer loop of instantiate from part i (0-based): the line of the
\* first value call with a matching parameter whose line is satisfied
RECURSIVE instantiate_from(_, _, _, _, _, _, _)
instantiate_from(parts, i, th, value, tag, special_param, is_arb) ==
    LET panic == [k |-> "panic", s |-> <<>>]
        line(m, back, fwd, next) ==
            IF m.k = "none" THEN next
            ELSE IF m.k = "panic" THEN panic
            ELSE IF back.k = "panic" THEN panic
            ELSE IF back.k = "none" THEN next
            ELSE IF fwd.k = "panic" THEN panic
            ELSE IF fwd.k = "none" THEN next
            ELSE [k |-> "ok", s |-> back.s \o unwrap_or_value(m, value) \o fwd.s]
        outer(part, next) ==
            IF part.t # "ValueCall" THEN next
            ELSE line(find_map_matches(part.params, th, value, tag, special_param,
                                       is_arb),
                      IF i > 0
                      THEN find_start_of_line(parts, i - 1, <<>>, th, value, tag,
                                              special_param, is_arb)
                      ELSE [k |-> "some", s |-> <<>>],
                      find_end_of_line(parts, i + 1, <<>>, th, value, tag,
                                       special_param, is_arb),
                      next)
    IN IF i >= Len(parts) THEN [k |-> "err", s |-> <<>>]
       ELSE outer(parts[i + 1],
                  instantiate_from(parts, i + 1, th, value, tag, special_param, is_arb))

\* the text of a template that takes no value: its String parts
RECURSIVE parts_text(_)
parts_text(parts) ==
    IF Len(parts) = 0 THEN <<>>
    ELSE (IF parts[1].t = "String" THEN parts[1].s ELSE <<>>) \o parts_text(Tail(parts))

\* Utility::instantiate(theme, value, special_param, is_arb); value is an
\* Option.  k = "ok" with the body, "err" for the three errors, "panic"
Utility_instantiate(utility, th, value, special_param, is_arb) ==
    IF utility.has_value
    THEN IF ~value.some THEN [k |-> "err", s |-> <<>>]
         ELSE instantiate_from(utility.parts, 0, th, value.v,
                               data_type_parser(value.v), special_param, is_arb)
    ELSE IF value.some THEN [k |-> "err", s |-> <<>>]
         ELSE [k |-> "ok", s |-> parts_text(utility.parts)]

(***************************************************************************)
(* lib.rs: the variant-application engine.  A result is "ok" with the new  *)
(* body, "none" (the variant does not resolve) or "panic" (an index out of *)
(* bounds or an unwrap of None).                                           *)
(***************************************************************************)
Ok(s) == [k |-> "ok", s |-> s]
NoneResult == [k |-> "none", s |-> <<>>]
Panic == [k |-> "panic", s |-> <<>>]

String(s) == [t |-> "String", s |-> s]

\* format!("{head} {{\n{body}\n}}")
block(head, body) == head \o <<" ","{","\n">> \o body \o <<"\n","}">>

\* v.iter().map(String text, or "" for Raw).collect().join("-")
RECURSIVE unit_strings(_)
unit_strings(v) ==
    IF Len(v) = 0 THEN <<>>
    ELSE <<IF v[1].t = "String" THEN v[1].s ELSE <<>>>> \o unit_strings(Tail(v))

joined(v) == join(unit_strings(v), <<"-">>)

get_breakpoint_var(th, name) ==
    IF <<"b","r","e","a","k","p","o","i","n","t","-">> \o name \in DOMAIN th.vars
    THEN Some(th.vars[<<"b","r","e","a","k","p","o","i","n","t","-">> \o name])
    ELSE IF name = <<"s","m">> THEN Some(<<"4","0","r","e","m">>)
    ELSE IF name = <<"m","d">> THEN Some(<<"4","8","r","e","m">>)
    ELSE IF name = <<"l","g">> THEN Some(<<"6","4","r","e","m">>)
    ELSE IF name = <<"x","l">> THEN Some(<<"8","0","r","e","m">>)
    ELSE IF name = <<"2","x","l">> THEN Some(<<"9","6","r","e","m">>)
    ELSE None

ContainerBreakpoints ==
    << <<<<"3","x","s">>, <<"1","6","r","e","m">>>>, <<<<"2","x","s">>, <<"1","8","r","e","m">>>>, <<<<"x","s">>, <<"2","0","r","e","m">>>>,
       <<<<"s","m">>, <<"2","4","r","e","m">>>>, <<<<"m","d">>, <<"2","8","r","e","m">>>>, <<<<"l","g">>, <<"3","2","r","e","m">>>>,
       <<<<"x","l">>, <<"3","6","r","e","m">>>>, <<<<"2","x","l">>, <<"4","2","r","e","m">>>>, <<<<"3","x","l">>, <<"4","8","r","e","m">>>>,
       <<<<"4","x","l">>, <<"5","6","r","e","m">>>>, <<<<"5","x","l">>, <<"6","4","r","e","m">>>>, <<<<"6","x","l">>, <<"7","2","r","e","m">>>>,
       <<<<"7","x","l">>, <<"8","0","r","e","m">>>> >>

get_container_breakpoint_var(th, name) ==
    LET builtin(hits) ==
            IF hits # {} THEN Some(ContainerBreakpoints[CHOOSE n \in hits : TRUE][2])
            ELSE None
    IN IF <<"c","o","n","t","a","i","n","e","r","-">> \o name \in DOMAIN th.vars
       THEN Some(th.vars[<<"c","o","n","t","a","i","n","e","r","-">> \o name])
       ELSE builtin({n \in 1..Len(ContainerBreakpoints) :
                        ContainerBreakpoints[n][1] = name})

AriaBooleans ==
    {<<"b","u","s","y">>, <<"c","h","e","c","k","e","d">>, <<"d","i","s","a","b","l","e","d">>, <<"e","x","p","a","n","d","e","d">>, <<"h","i","d","d","e","n">>, <<"p","r","e","s","s","e","d">>,
     <<"r","e","a","d","o","n","l","y">>, <<"r","e","q","u","i","r","e","d">>, <<"s","e","l","e","c","t","e","d">>}

\* the "not" arm after the recursion: ":not(" goes after the leading "&",
\* ")" at the offset of the first newline counted from there
not_surgery(other) ==
    LET insert(start, newline_index) ==
            IF newline_index < 0 THEN other
            ELSE insert_str(insert_str(other, newline_index, <<")">>), start, <<":","n","o","t","(">>)
        from(start) == insert(start, find(SliceFrom(other, start), <<"\n">>))
        amp(first) ==
            from(IF other[first + 1] = "&" /\ first + 1 < Len(other)
                 THEN first + 1 ELSE first)
        trimmed(nonws) ==
            IF nonws = {} THEN other
            ELSE amp(CHOOSE i \in nonws : \A j \in nonws : i <= j)
    IN trimmed({i \in 0..(Len(other) - 1) : ~is_whitespace(other[i + 1])})

\* &res[1..res.find("{").unwrap()]
cond_of(res) ==
    LET slice(brace) == IF brace < 1 THEN Panic ELSE Ok(Slice(res, 1, brace))
    IN slice(find(res, <<"{">>))

NthHeads ==
    << <<<<"n","t","h">>, <<"&",":","n","t","h","-","c","h","i","l","d","(">>>>, <<<<"n","t","h","-","l","a","s","t">>, <<"&",":","n","t","h","-","l","a","s","t","-","c","h","i","l","d","(">>>>,
       <<<<"n","t","h","-","o","f","-","t","y","p","e">>, <<"&",":","n","t","h","-","o","f","-","t","y","p","e","(">>>>,
       <<<<"n","t","h","-","l","a","s","t","-","o","f","-","t","y","p","e">>, <<"&",":","n","t","h","-","l","a","s","t","-","o","f","-","t","y","p","e","(">>>> >>

RECURSIVE resolve_internal_variant(_, _)
\* the "peer" and "group" arms, which differ in the marker class
\* (".peer" / ".group") and the combinator (" ~ *" / " *")
scoped_arm(body, v, marker, comb) ==
    LET param_1 == v[2].s
        nested(scope, cond) ==
            IF cond.k # "ok" THEN cond
            ELSE Ok(block(<<"&",":","i","s","(",":","w","h","e","r","e","(">> \o marker \o scope \o <<")">> \o cond.s
                          \o comb \o <<")">>, body))
        recursed(scope, res) ==
            IF res.k # "ok" THEN res ELSE nested(scope, cond_of(res.s))
        named(param, scope) ==
            IF param = <<"h","a","s">> \/ param = <<"n","o","t">>
            THEN recursed(scope, resolve_internal_variant(body,
                                     <<String(param)>> \o SubSeq(v, 3, Len(v))))
            ELSE Ok(block(<<"&",":","i","s","(",":","w","h","e","r","e","(">> \o marker \o scope \o <<")",":","i","s","(",":">>
                          \o joined(Tail(v)) \o <<")">> \o comb \o <<")">>, body))
        split(sp) ==
            IF sp.some THEN named(sp.pre, escape_string_for_css(<<"/">> \o sp.post))
            ELSE named(param_1, <<>>)
    IN IF v[2].t = "String" THEN split(split_once(param_1, <<"/">>))
       ELSE IF contains(param_1, <<"&">>)
       THEN Ok(block(<<"&",":","i","s","(">> \o replace_char(param_1, "&", <<":","w","h","e","r","e","(">> \o marker \o <<")">> \o comb)
                     \o <<")">>, body))
       ELSE Ok(block(<<"&",":","i","s","(",":","w","h","e","r","e","(">> \o marker \o <<")",":","i","s","(">> \o param_1 \o <<")">> \o comb \o <<")">>,
                     body))

\* the "in" arm
in_arm(body, v) ==
    LET param_1 == v[2].s
        nested(cond) ==
            IF cond.k # "ok" THEN cond
            ELSE Ok(block(<<"&",":","i","s","(",":","w","h","e","r","e","(">> \o cond.s \o <<")"," ","*",")">>, body))
        recursed(res) == IF res.k # "ok" THEN res ELSE nested(cond_of(res.s))
    IN IF v[2].t = "String"
       THEN IF param_1 = <<"h","a","s">> \/ param_1 = <<"n","o","t">>
            THEN recursed(resolve_internal_variant(body,
                              <<String(param_1)>> \o SubSeq(v, 3, Len(v))))
            ELSE Ok(block(<<"&",":","i","s","(",":","w","h","e","r","e","(",":">> \o joined(Tail(v)) \o <<")"," ","*",")">>, body))
       ELSE Ok(block(<<"&",":","i","s","(",":","w","h","e","r","e","(">> \o param_1 \o <<")"," ","*",")">>, body))

resolve_internal_variant(body, v) ==
    LET negated(other) ==
            IF other.k # "ok" THEN other ELSE Ok(not_surgery(other.s))
        head(s, nth) ==
            IF s \notin {<<"d","a","t","a">>, <<"h","a","s">>, <<"a","r","i","a">>, <<"n","o","t">>, <<"p","e","e","r">>, <<"i","n">>, <<"g","r","o","u","p">>}
               /\ nth = {}
            THEN NoneResult
            ELSE IF s = <<"n","o","t">> THEN negated(resolve_internal_variant(body, Tail(v)))
            ELSE IF Len(v) < 2 THEN Panic
            ELSE IF s = <<"d","a","t","a">>
            THEN IF v[2].t = "Raw" THEN Ok(block(<<"&","[","d","a","t","a","-">> \o v[2].s \o <<"]">>, body))
                 ELSE Ok(block(<<"&","[","d","a","t","a","-">> \o joined(Tail(v)) \o <<"]">>, body))
            ELSE IF nth # {}
            THEN IF v[2].t = "Raw"
                 THEN Ok(block(NthHeads[CHOOSE n \in nth : TRUE][2] \o v[2].s \o <<")">>, body))
                 ELSE NoneResult
            ELSE IF s = <<"h","a","s">>
            THEN IF v[2].t = "String"
                 THEN Ok(block(<<"&",":","h","a","s","(",":">> \o joined(Tail(v)) \o <<")">>, body))
                 ELSE Ok(block(<<"&",":","h","a","s","(">> \o v[2].s \o <<")">>, body))
            ELSE IF s = <<"a","r","i","a">>
            THEN IF v[2].t = "String"
                 THEN IF v[2].s \in AriaBooleans
                      THEN Ok(<<"&","[","a","r","i","a","-">> \o v[2].s \o <<"=","\"","t","r","u","e","\"","]">>)
                      ELSE NoneResult
                 ELSE Ok(<<"&","[","a","r","i","a","-">> \o v[2].s \o <<"]">>)
            ELSE IF s \in {<<"p","e","e","r">>, <<"g","r","o","u","p">>}
            THEN scoped_arm(body, v, IF s = <<"p","e","e","r">> THEN <<".","p","e","e","r">> ELSE <<".","g","r","o","u","p">>,
                            IF s = <<"p","e","e","r">> THEN <<" ","~"," ","*">> ELSE <<" ","*">>)
            ELSE in_arm(body, v)
    IN IF Len(v) = 0 THEN Panic
       ELSE IF v[1].t # "String" THEN NoneResult
       ELSE head(v[1].s, {n \in 1..Len(NthHeads) : NthHeads[n][1] = v[1].s})

PseudoElementNames ==
    {<<"b","e","f","o","r","e">>, <<"a","f","t","e","r">>, <<"p","l","a","c","e","h","o","l","d","e","r">>, <<"f","i","l","e">>, <<"s","e","l","e","c","t","i","o","n">>, <<"f","i","r","s","t","-","l","e","t","t","e","r">>,
     <<"f","i","r","s","t","-","l","i","n","e">>, <<"b","a","c","k","d","r","o","p">>}

\* one iteration of the loop over parsed.variants: the variant chain v
\* applied to css_def; "none" leaves parse_tailwind_str with None
apply_variant(css_def, v, th, vs) ==
    LET body == css_def.body
        set(b) == [k |-> "ok", def |-> [css_def EXCEPT !.body = b]]
        push(p) == [k |-> "ok", def |-> [css_def EXCEPT !.pseudo_elements = Append(@, p)]]
        unchanged == [k |-> "ok", def |-> css_def]
        panic == [k |-> "panic", def |-> css_def]
        v_str == v[1].s
        internal(r) == IF r.k = "ok" THEN set(r.s) ELSE [k |-> r.k, def |-> css_def]
        instantiate(first_user) ==
            IF first_user.target > Len(first_user.body) THEN panic
            ELSE set(Variant_instantiate(first_user, body))
        user_variant(user) ==
            IF user # {}
            THEN instantiate(vs[CHOOSE n \in user : \A m \in user : n <= m])
            ELSE internal(resolve_internal_variant(body, v))
        container_query(whole, container) ==
            IF container.some
            THEN set(block(<<"@","c","o","n","t","a","i","n","e","r"," ","(","w","i","d","t","h"," ",">","="," ">> \o container.v \o <<")">>, body))
            ELSE user_variant({n \in 1..Len(vs) : vs[n].name = whole})
        media_query(whole, breakpoint) ==
            IF breakpoint.some
            THEN set(block(<<"@","m","e","d","i","a"," ","(","w","i","d","t","h"," ",">","="," ">> \o breakpoint.v \o <<")">>, body))
            ELSE container_query(whole,
                     IF starts_with(whole, <<"@">>) /\ Len(whole) > 1
                     THEN get_container_breakpoint_var(th, SliceFrom(whole, 1))
                     ELSE None)
        named(whole) == media_query(whole, get_breakpoint_var(th, whole))
    IN IF v[1].t = "Raw"
       THEN IF starts_with(v_str, <<":",":">>) THEN push(SliceFrom(v_str, 2))
            ELSE set(block(v_str, body))
       ELSE IF v_str \in PseudoElementNames THEN push(v_str)
       ELSE IF v_str = <<"*">> THEN set(block(<<"&"," ",">"," ","*">>, body))
       ELSE IF v_str = <<"*","*">> THEN set(block(<<"&"," ","*">>, body))
       ELSE IF v_str \in {<<"m","i","n">>, <<"m","a","x">>, <<"@","m","i","n">>, <<"@","m","a","x">>}
       THEN IF Len(v) < 2 THEN panic
            ELSE IF v[2].t = "Raw"
            THEN set(block((IF v_str \in {<<"m","i","n">>, <<"m","a","x">>} THEN <<"@","m","e","d","i","a"," ","(","w","i","d","t","h"," ">>
                            ELSE <<"@","c","o","n","t","a","i","n","e","r"," ","(","w","i","d","t","h"," ">>)
                           \o (IF v_str \in {<<"m","i","n">>, <<"@","m","i","n">>} THEN <<">","="," ">> ELSE <<"<"," ">>)
                           \o v[2].s \o <<")">>, body))
            ELSE unchanged
       ELSE IF v_str = <<"s","u","p","p","o","r","t","s">>
       THEN IF Len(v) < 2 THEN panic
            ELSE IF v[2].t = "Raw" THEN set(block(<<"@","s","u","p","p","o","r","t","s"," ","(">> \o v[2].s \o <<")">>, body))
            ELSE set(block(<<"@","s","u","p","p","o","r","t","s"," ","(">> \o joined(Tail(v)) \o <<")">>, body))
       ELSE IF v_str = <<"n","o","t">> /\ Len(v) < 2 THEN panic
       ELSE IF v_str = <<"n","o","t">> /\ v[2] = String(<<"s","u","p","p","o","r","t","s">>)
       THEN set(block(<<"@","s","u","p","p","o","r","t","s"," ","(","n","o","t"," ">> \o joined(Tail(v)) \o <<")">>, body))
       ELSE named(joined(v))

\* the loop done wrongly, with .rev(): the chains applied last to first
\* (C8 must fail for it)
RECURSIVE apply_variants_rev(_, _, _, _)
apply_variants_rev(css_def, chains, th, vs) ==
    LET step(r) ==
            IF r.k # "ok" THEN r
            ELSE apply_variants_rev(r.def, SubSeq(chains, 1, Len(chains) - 1), th, vs)
    IN IF Len(chains) = 0 THEN [k |-> "ok", def |-> css_def]
       ELSE step(apply_variant(css_def, chains[Len(chains)], th, vs))

\* for v in parsed.variants.iter(): the chains applied in list order
RECURSIVE apply_variants(_, _, _, _)
apply_variants(css_def, chains, th, vs) ==
    LET step(r) ==
            IF r.k # "ok" THEN r ELSE apply_variants(r.def, Tail(chains), th, vs)
    IN IF Len(chains) = 0 THEN [k |-> "ok", def |-> css_def]
       ELSE step(apply_variant(css_def, chains[1], th, vs))

(***************************************************************************)
(* lib.rs: EmitEnv.  An EmitEnv value is a record of its six fields.       *)
(***************************************************************************)
\* the value of a let binding: the one element of a set
the(S) == CHOOSE x \in S : TRUE

\* EmitEnv::new()
EmitEnv_new ==
    [defs |-> <<>>, utilities |-> <<>>, variants |-> <<>>,
     theme |-> [vars |-> EmptyMap, keyframes |-> EmptyMap],
     defs_generated |-> {}, custom_properties |-> <<>>]

\* the loop over parsed_config.themes of load_config
RECURSIVE extend_themes(_, _)
extend_themes(th, themes) ==
    IF Len(themes) = 0 THEN th
    ELSE extend_themes([vars |-> map_extend(th.vars, themes[1].vars),
                        keyframes |-> map_extend(th.keyframes, themes[1].keyframes)],
                       Tail(themes))

\* load_config done wrongly: what parsed before the first ill-formed
\* declaration is added although the call returns false (C4 must fail
\* for it)
load_config_partial(env, s) ==
    LET extend(parsed_config, ret) ==
            [env |-> [env EXCEPT
                        !.utilities = @ \o parsed_config.utilities,
                        !.variants = @ \o parsed_config.variants,
                        !.theme = extend_themes(@, parsed_config.themes)],
             ret |-> ret]
        parse(units) ==
            extend(user_config(units.v,
                       [utilities |-> <<>>, variants |-> <<>>, themes |-> <<>>]),
                   units.next > Len(s))
    IN parse(config_units(s, 1, <<>>))

\* EmitEnv::load_config(s): the EmitEnv after the call and the value returned
load_config(env, s) ==
    LET extend(parsed_config) ==
            IF parsed_config.some
            THEN [env |-> [env EXCEPT
                             !.utilities = @ \o parsed_config.v.utilities,
                             !.variants = @ \o parsed_config.v.variants,
                             !.theme = extend_themes(@, parsed_config.v.themes)],
                  ret |-> TRUE]
            ELSE [env |-> env, ret |-> FALSE]
    IN extend(config_parser(s))

\* the special parameter done wrongly: every modifier after a numeric
\* value is a line-height factor, whatever the name (C24 must fail for it)
special_param_of_numeric(th, pre_len, pre_str, last_str) ==
    LET split(sp) ==
            IF sp.some /\ data_type_parser(sp.pre) \in {"Integer", "Number"}
            THEN [param |-> [t |-> "LineHeight",
                             s |-> <<"c","a","l","c","(","v","a","r","(","-","-","s","p","a","c","i","n","g",")"," ","*"," ">> \o sp.post \o <<")">>],
                  last_str |-> sp.pre]
            ELSE [param |-> NoParam, last_str |-> last_str]
    IN split(split_once(last_str, <<"/">>))

\* the special parameter of a last segment "pre/special_param_val": the
\* parameter and the last segment that name resolution goes on with
special_param_of(th, pre_len, pre_str, last_str) ==
    LET non_empty(x) == IF Len(x) > 0 THEN <<x>> ELSE <<>>
        text_key(pre) ==
            <<"t","e","x","t">> \o (IF pre_len > 1 THEN <<>> ELSE <<"-">>)
            \o join(non_empty(SliceFrom(pre_str, 4)) \o non_empty(pre), <<"-">>)
        color_key(pre, after_idx) ==
            <<"c","o","l","o","r">> \o after_idx \o (IF Len(after_idx) = 0 THEN <<>> ELSE <<"-">>) \o pre
        after(idx) == SliceFrom(pre_str, IF idx >= 0 THEN idx ELSE Len(pre_str))
        line_height(val) ==
            [t |-> "LineHeight", s |-> <<"c","a","l","c","(","v","a","r","(","-","-","s","p","a","c","i","n","g",")"," ","*"," ">> \o val \o <<")">>]
        transparency(val) == [t |-> "Transparency", s |-> val \o <<"%">>]
        typed(val, tag) ==
            IF tag = "Number" THEN line_height(val)
            ELSE IF tag = "Color" THEN transparency(val)
            ELSE NoParam
        param(pre, val) ==
            IF starts_with(pre_str, <<"t","e","x","t">>) /\ text_key(pre) \in DOMAIN th.vars
            THEN IF starts_with(val, <<"[">>) /\ ends_with(val, <<"]">>)
                 THEN [t |-> "LineHeight", s |-> Slice(val, 1, Len(val) - 1)]
                 ELSE line_height(val)
            ELSE IF color_key(pre, after(find(pre_str, <<"-">>))) \in DOMAIN th.vars
            THEN transparency(val)
            ELSE typed(val, data_type_parser(pre))
        goes_on(pre, p) ==
            [param |-> p, last_str |-> IF p.t # "None" THEN pre ELSE last_str]
        split(sp) ==
            IF ~sp.some THEN [param |-> NoParam, last_str |-> last_str]
            ELSE goes_on(sp.pre, param(sp.pre, sp.post))
    IN split(split_once(last_str, <<"/">>))

\* the assignment done wrongly: a body that is already set is kept (C20
\* must fail for it)
set_body_first(body_to_set, res) ==
    IF body_to_set.some THEN body_to_set ELSE Some(res)

\* the assignment done wrongly: the body is appended to the one already
\* set (C6 must fail for it)
set_body_append(body_to_set, res) ==
    IF body_to_set.some THEN Some(body_to_set.v \o res) ELSE Some(res)

\* body_to_set = Some(res)
set_body(body_to_set, res) == Some(res)

\* the guard of one of the four loops over self.utilities
utility_selected(utility, mode, full, pre_str) ==
    IF mode = "exact" THEN utility.name = full /\ ~utility.has_value
    ELSE IF mode = "prefix"
    THEN utility.has_value /\ starts_with(full, utility.name)
         /\ Len(full) > Len(utility.name)
    ELSE utility.name = pre_str /\ utility.has_value

\* one loop over self.utilities: every selected template that
\* instantiates extends custom_properties and writes body_to_set
RECURSIVE utility_loop(_, _, _, _, _, _, _, _)
utility_loop(us, mode, full, pre_str, last_str, special_param, th, acc) ==
    LET value(utility) ==
            IF mode = "exact" THEN None
            ELSE IF mode = "prefix" THEN Some(SliceFrom(full, Len(utility.name) + 1))
            ELSE Some(last_str)
        instantiated(utility, res) ==
            IF res.k = "err" THEN acc
            ELSE IF res.k = "panic" THEN [acc EXCEPT !.k = "panic"]
            ELSE [k |-> "ok",
                  custom_properties |-> acc.custom_properties \o utility.properties,
                  body_to_set |-> set_body(acc.body_to_set, res.s)]
        each(utility) ==
            IF ~utility_selected(utility, mode, full, pre_str) THEN acc
            ELSE instantiated(utility,
                     Utility_instantiate(utility, th, value(utility), special_param,
                                         mode = "raw"))
    IN IF Len(us) = 0 \/ acc.k = "panic" THEN acc
       ELSE utility_loop(Tail(us), mode, full, pre_str, last_str, special_param, th,
                         each(us[1]))

\* the part of parse_tailwind_str that resolves the utility group to a
\* body: body_to_set and custom_properties after it
utility_body(env, utility) ==
    LET start == [k |-> "ok", custom_properties |-> env.custom_properties,
                  body_to_set |-> None]
        last == utility[Len(utility)]
        full(pre, sp) == join(Append(pre, sp.last_str), <<"-">>)
        line_height(param, c) ==
            IF c.k = "ok" /\ param.t = "LineHeight" /\ c.body_to_set.some
            THEN [c EXCEPT !.body_to_set =
                      Some(c.body_to_set.v \o <<"\n","l","i","n","e","-","h","e","i","g","h","t",":"," ">> \o param.s \o <<";">>)]
            ELSE c
    IN IF Len(utility) = 1 /\ last.t = "Raw"
       THEN [start EXCEPT !.body_to_set = Some(last.s)]
       ELSE the({
           IF last.t = "Raw"
           THEN utility_loop(env.utilities, "raw", <<>>, join(pre, <<"-">>), last.s,
                             NoParam, env.theme, start)
           ELSE the({
               line_height(sp.param,
                   utility_loop(env.utilities, "pre", full(pre, sp), join(pre, <<"-">>),
                       sp.last_str, sp.param, env.theme,
                       utility_loop(env.utilities, "prefix", full(pre, sp), join(pre, <<"-">>),
                           sp.last_str, sp.param, env.theme,
                           utility_loop(env.utilities, "exact", full(pre, sp), join(pre, <<"-">>),
                               sp.last_str, sp.param, env.theme, start)))) :
               sp \in {special_param_of(env.theme, Len(pre), join(pre, <<"-">>), last.s)} }) :
           pre \in {unit_strings(SubSeq(utility, 1, Len(utility) - 1))} })

\* self.defs.push(css_def); self.defs_generated.push(css_def.class_name)
record_def(env, css_def) ==
    [env EXCEPT !.defs = Append(@, css_def),
                !.defs_generated = @ \cup {css_def.class_name}]

\* the name looked up in defs_generated before a token is compiled
generated_key(prefix, class_name) == class_name

\* EmitEnv::parse_tailwind_str(prefix, src): k = "some" with the recorded
\* rule and the lexed length in bytes, "none", or "panic"; env is the
\* EmitEnv after the call
parse_tailwind_str(env, prefix, src0) ==
    LET none == [k |-> "none", env |-> env, def |-> <<>>, skip |-> 0]
        panic(e) == [k |-> "panic", env |-> e, def |-> <<>>, skip |-> 0]
        src1 == IF prefix.some THEN SliceFrom(src0, Len(prefix.v)) ELSE src0
        css_def(class_name, body) ==
            [pseudo_elements |-> <<>>,
             class_name |-> (IF prefix.some THEN prefix.v ELSE <<>>) \o class_name,
             body |-> body]
        pushed(env2, end, wrapped) ==
            IF wrapped.k = "none" THEN [none EXCEPT !.env = env2]
            ELSE IF wrapped.k = "panic" THEN panic(env2)
            ELSE [k |-> "some", env |-> record_def(env2, wrapped.def),
                  def |-> wrapped.def, skip |-> end]
    IN IF prefix.some /\ ~starts_with(src0, prefix.v) THEN none
       ELSE the({
           the({
               IF parsed.k = "none" THEN none
               ELSE IF parsed.k = "panic" THEN panic(env)
               ELSE IF generated_key(prefix, class_name) \in env.defs_generated
               THEN none
               ELSE the({
                   IF resolved.k = "panic"
                   THEN panic([env EXCEPT
                                 !.custom_properties = resolved.custom_properties])
                   ELSE IF ~resolved.body_to_set.some THEN none
                   ELSE pushed([env EXCEPT
                                  !.custom_properties = resolved.custom_properties],
                               byte_len(Slice(src1, 0, lexed.end)),
                               apply_variants(
                                   css_def(class_name, resolved.body_to_set.v),
                                   parsed.variants, env.theme, env.variants)) :
                   resolved \in {utility_body(env, parsed.utility)} }) :
               parsed \in {duckwind_parser(lexed.toks)},
               class_name \in {escape_string_for_css(Slice(src1, 0, lexed.end))} }) :
           lexed \in {lexer(src1)} })

\* the inner loop of parse_full_string done wrongly: the offset is left
\* where it is (C27 must fail for it)
next_char_boundary_unmoved(txt, i) == i

\* while i < txt.len() && !txt.is_char_boundary(i) { i += 1 }
RECURSIVE next_char_boundary(_, _)
next_char_boundary(txt, i) ==
    IF i < byte_len(txt) /\ ~is_char_boundary(txt, i)
    THEN next_char_boundary(txt, i + 1)
    ELSE i

\* EmitEnv::parse_full_string(prefix, txt) from byte offset i on: every
\* offset the loop reaches is tried, and a recorded rule moves the offset
\* past its token; &txt[i..] panics when i is inside a character.  trace
\* holds the iterations of the loop: the offset, what parse_tailwind_str
\* returned and the offset after the iteration
RECURSIVE parse_full_string_from(_, _, _, _, _)
parse_full_string_from(env, prefix, txt, i, trace) ==
    LET from == CHOOSE n \in 0..Len(txt) : byte_len(SubSeq(txt, 1, n)) = i
        after(r) ==
            next_char_boundary(txt, (IF r.k = "some" THEN i + r.skip ELSE i) + 1)
        step(r) ==
            IF r.k = "panic" THEN [k |-> "panic", env |-> r.env, trace |-> trace]
            ELSE parse_full_string_from(r.env, prefix, txt, after(r),
                     Append(trace, [i |-> i, k |-> r.k, skip |-> r.skip,
                                    next |-> after(r)]))
    IN IF i >= byte_len(txt) THEN [k |-> "ok", env |-> env, trace |-> trace]
       ELSE IF ~is_char_boundary(txt, i)
       THEN [k |-> "panic", env |-> env, trace |-> trace]
       ELSE step(parse_tailwind_str(env, prefix, SubSeq(txt, from + 1, Len(txt))))

parse_full_string(env, prefix, txt) == parse_full_string_from(env, prefix, txt, 0, <<>>)

(***************************************************************************)
(* The inputs: configuration texts and class tokens.                       *)
(***************************************************************************)
\* two utilities (one static, one with a value), a long-form variant and a
\* theme block that declares --k-1 twice
CfgA == <<"@","u","t","i","l","i","t","y"," ","a","-","b"," ","{","p","}","\n","@","u","t","i","l","i","t","y"," ","a","-","*"," ","{","q",":","-","-","v","a","l","u","e","(","a","n","y",")","}","\n","@","c","u","s","t","o","m","-","v","a","r","i","a","n","t"," ","h"," ","{","&",":","h","{","@","s","l","o","t",";","}","}","\n","@","t","h","e","m","e"," ","{","-","-","k","-","1",":"," ","v",";","-","-","k","-","1",":"," ","w",";","\n","@","k","e","y","f","r","a","m","e","s"," ","f"," ","{","a","}","}">>
\* a theme block that declares --k-1 and f again, a utility that reads the
\* theme, a short-form variant
CfgB == <<"@","t","h","e","m","e"," ","{","-","-","k","-","1",":"," ","u",";","-","-","m",":"," ","z",";","\n","@","k","e","y","f","r","a","m","e","s"," ","f"," ","{","b","}","}","\n","@","u","t","i","l","i","t","y"," ","c","-","*"," ","{","r",":","-","-","v","a","l","u","e","(","-","-","k","-","*",")","}","\n","@","c","u","s","t","o","m","-","v","a","r","i","a","n","t"," ","s"," ","(","&",":","s",")",";">>
\* a long-form variant without @slot; after a well-formed utility and a
\* well-formed theme block, and before another well-formed utility
CfgBad == <<"@","u","t","i","l","i","t","y"," ","d"," ","{","x","}","\n","@","t","h","e","m","e"," ","{","-","-","k","-","1",":"," ","n",";","}","\n","@","c","u","s","t","o","m","-","v","a","r","i","a","n","t"," ","w"," ","{","y","}","\n","@","u","t","i","l","i","t","y"," ","e"," ","{","z","}">>

ConfigNames == {"A", "B", "Bad"}
ConfigText(c) == IF c = "A" THEN CfgA ELSE IF c = "B" THEN CfgB ELSE CfgBad

\* the class tokens handed to parse_tailwind_str without a prefix
Tokens ==
    { <<"a","-","b">>, <<"a","-","x">>, <<"c","-","1">>, <<"d">>, <<"[","x","]">>, <<"a","-","[","x","]","-","y">>,
      <<"h",":","a","-","x">>, <<"s",":","a","-","x">>, <<"s","m",":","a","-","x">>, <<"z","z",":","a","-","x">>,
      <<"m","i","n","-","[","1","]",":","a","-","x">>, <<"m","i","n","-","m","d",":","a","-","x">>, <<"m","i","n",":","a","-","x">>,
      <<"b","e","f","o","r","e",":","a","-","x">>, <<"f","i","r","s","t","-","l","e","t","t","e","r",":","a","-","x">>, <<"s","m",":","b","e","f","o","r","e",":","a","-","x">>,
      <<"s","m",":","h",":","a","-","x">>, <<"h",":","s","m",":","a","-","x">> }

\* the (prefix, src) pairs handed to parse_tailwind_str
Submissions ==
    { [prefix |-> None, src |-> t] : t \in Tokens }
    \cup { [prefix |-> Some(<<"p","-">>), src |-> t] : t \in {<<"p","-","a","-","x">>, <<"a","-","x">>} }

\* the texts handed to parse_full_string
FullTexts == { <<"a","-","x"," ","a","-","b"," ","a","-","x">>, <<"s","m",":","a","-","x","\n","[","x","]">>, <<"a","-","x"," ","m","i","n",":","a","-","x">> }

(***************************************************************************)
(* The state machine: one EmitEnv, created by EmitEnv::new(), on which     *)
(* load_config and parse_tailwind_str are called in any order.  A call     *)
(* that panics ends the process.                                           *)
(***************************************************************************)
env_now ==
    [defs |-> defs, utilities |-> utilities, variants |-> variants, theme |-> theme,
     defs_generated |-> defs_generated, custom_properties |-> custom_properties]

env_becomes(e) ==
    /\ defs' = e.defs /\ utilities' = e.utilities /\ variants' = e.variants
    /\ theme' = e.theme /\ defs_generated' = e.defs_generated
    /\ custom_properties' = e.custom_properties

Init ==
    /\ defs = <<>> /\ utilities = <<>> /\ variants = <<>>
    /\ theme = EmitEnv_new.theme /\ defs_generated = {} /\ custom_properties = <<>>
    /\ outcome = [op |-> "new", k |-> "ok"]
    /\ loaded = <<>>
    /\ ops = 0
    /\ once = EmitEnv_new

LoadConfig ==
    /\ ops < MaxOps
    /\ outcome.k # "panic"
    /\ \E c \in ConfigNames :
           \E r \in {load_config(env_now, ConfigText(c))} :
              /\ env_becomes(r.env)
              /\ outcome' = [op |-> "load_config", k |-> "ok", cfg |-> c, ret |-> r.ret]
              /\ loaded' = Append(loaded, [cfg |-> c, ret |-> r.ret])
    /\ ops' = ops + 1
    /\ UNCHANGED once

ParseTailwindStr ==
    /\ ops < MaxOps
    /\ outcome.k # "panic"
    /\ \E sub \in Submissions :
           \E r \in {parse_tailwind_str(env_now, sub.prefix, sub.src)} :
              /\ env_becomes(r.env)
              /\ outcome' = [op |-> "parse_tailwind_str", k |-> r.k,
                             prefix |-> sub.prefix, src |-> sub.src,
                             def |-> r.def, skip |-> r.skip]
    /\ ops' = ops + 1
    /\ UNCHANGED <<loaded, once>>

ParseFullString ==
    /\ ops < MaxOps
    /\ outcome.k # "panic"
    /\ \E txt \in FullTexts :
           \E r \in {parse_full_string(env_now, None, txt)} :
              /\ env_becomes(r.env)
              /\ outcome' = [op |-> "parse_full_string", k |-> r.k, txt |-> txt]
    /\ ops' = ops + 1
    /\ UNCHANGED <<loaded, once>>

Next == LoadConfig \/ ParseTailwindStr \/ ParseFullString

Spec == Init /\ [][Next]_vars

(***************************************************************************)
(* Two EmitEnvs side by side: both load the same configuration text, one   *)
(* of them once and the other one up to MaxLoads times, and both receive   *)
(* the same tokens.                                                        *)
(***************************************************************************)
InitIdem ==
    \E c \in ConfigNames :
        \E r \in {load_config(EmitEnv_new, ConfigText(c))} :
           /\ defs = r.env.defs /\ utilities = r.env.utilities
           /\ variants = r.env.variants /\ theme = r.env.theme
           /\ defs_generated = r.env.defs_generated
           /\ custom_properties = r.env.custom_properties
           /\ outcome = [op |-> "load_config", k |-> "ok", cfg |-> c, ret |-> r.ret]
           /\ loaded = <<[cfg |-> c, ret |-> r.ret]>>
           /\ ops = 0
           /\ once = r.env

LoadAgain ==
    /\ Len(loaded) < MaxLoads
    /\ outcome.k # "panic"
    /\ \E r \in {load_config(env_now, ConfigText(loaded[1].cfg))} :
           /\ env_becomes(r.env)
           /\ outcome' = [op |-> "load_config", k |-> "ok", cfg |-> loaded[1].cfg,
                          ret |-> r.ret]
           /\ loaded' = Append(loaded, [cfg |-> loaded[1].cfg, ret |-> r.ret])
    /\ UNCHANGED <<ops, once>>

SubmitBoth ==
    /\ ops < MaxTokens
    /\ outcome.k # "panic"
    /\ \E sub \in Submissions :
           \E r \in {parse_tailwind_str(env_now, sub.prefix, sub.src)},
              r1 \in {parse_tailwind_str(once, sub.prefix, sub.src)} :
              /\ env_becomes(r.env)
              /\ once' = r1.env
              /\ outcome' = [op |-> "parse_tailwind_str", k |-> r.k,
                             prefix |-> sub.prefix, src |-> sub.src,
                             def |-> r.def, skip |-> r.skip, once_k |-> r1.k]
    /\ ops' = ops + 1
    /\ UNCHANGED loaded

NextIdem == LoadAgain \/ SubmitBoth

SpecIdem == InitIdem /\ [][NextIdem]_vars

(***************************************************************************)
(* What the configuration texts declare, as a reader of the texts lists    *)
(* it: the theme declarations in text order, and whether every             *)
(* declaration of the text is well formed.                                 *)
(***************************************************************************)
ThemeDeclarations(c) ==
    IF c = "A"
    THEN << [kind |-> "var", name |-> <<"k","-","1">>, value |-> <<"v">>],
            [kind |-> "var", name |-> <<"k","-","1">>, value |-> <<"w">>],
            [kind |-> "keyframes", name |-> <<"f">>, value |-> <<"{","a","}">>] >>
    ELSE IF c = "B"
    THEN << [kind |-> "var", name |-> <<"k","-","1">>, value |-> <<"u">>],
            [kind |-> "var", name |-> <<"m">>, value |-> <<"z">>],
            [kind |-> "keyframes", name |-> <<"f">>, value |-> <<"{","b","}">>] >>
    ELSE << [kind |-> "var", name |-> <<"k","-","1">>, value |-> <<"n">>] >>

WholeTextParses(c) == c \in {"A", "B"}

\* the theme declarations of the loads that returned true, in load order
RECURSIVE declarations_of(_)
declarations_of(loads) ==
    IF Len(loads) = 0 THEN <<>>
    ELSE (IF loads[1].ret THEN ThemeDeclarations(loads[1].cfg) ELSE <<>>)
         \o declarations_of(Tail(loads))

\* C1: no two rules recorded in defs have the same class_name, with or
\* without a prefix argument.
C1_NoDuplicateClassName ==
    \A i, j \in DOMAIN defs : defs[i].class_name = defs[j].class_name => i = j

\* C2: submitting a token either records a rule or emits no rule; it never
\* panics, whatever the token.
C2_NeverPanics ==
    outcome.op \in {"parse_tailwind_str", "parse_full_string"} => outcome.k # "panic"

\* C3: after load_config of a text with one ill-formed declaration among
\* well-formed ones, the well-formed utilities before and after it and the
\* well-formed theme variable are in the EmitEnv.
C3_IllFormedAloneDiscarded ==
    (outcome.op = "load_config" /\ outcome.cfg = "Bad")
        => /\ \E i \in DOMAIN utilities : utilities[i].name = <<"d">>
           /\ \E i \in DOMAIN utilities : utilities[i].name = <<"e">>
           /\ <<"k","-","1">> \in DOMAIN theme.vars

\* C4: load_config returns true exactly when the whole text parsed, and a
\* call that returns false leaves utilities, variants and the theme (vars
\* and keyframes) as they were.
C4_LoadAllOrNothing ==
    [][outcome'.op = "load_config"
        => /\ outcome'.ret = WholeTextParses(outcome'.cfg)
           /\ (~outcome'.ret => UNCHANGED <<utilities, variants, theme>>)]_vars

\* a load that returned false on an EmitEnv that already holds declarations
C4_Witness ==
    /\ outcome.op = "load_config" /\ ~outcome.ret
    /\ Len(utilities) > 0 /\ Len(variants) > 0 /\ <<"k","-","1">> \in DOMAIN theme.vars

\* C5: every theme variable and keyframes name maps to the value of its
\* last declaration in load order, across loads and inside one block, and
\* the theme holds no other name.
C5_LastDeclarationWins ==
    LET all == declarations_of(loaded)
        map(kind) == IF kind = "var" THEN theme.vars ELSE theme.keyframes
        is_last(i) == \A j \in (i + 1)..Len(all) :
                          ~(all[j].kind = all[i].kind /\ all[j].name = all[i].name)
    IN /\ \A i \in DOMAIN all :
              is_last(i) => /\ all[i].name \in DOMAIN map(all[i].kind)
                            /\ map(all[i].kind)[all[i].name] = all[i].value
       /\ \A kind \in {"var", "keyframes"} :
              DOMAIN map(kind) = {all[i].name : i \in {j \in DOMAIN all : all[j].kind = kind}}

\* two loads that redeclare the same names: A (which declares --k-1 twice)
\* and then B
C5_Witness ==
    /\ Len(loaded) >= 2
    /\ loaded[1] = [cfg |-> "A", ret |-> TRUE]
    /\ loaded[2] = [cfg |-> "B", ret |-> TRUE]
    /\ theme.vars[<<"k","-","1">>] = <<"u">> /\ theme.keyframes[<<"f">>] = <<"{","b","}">>

\* C6: an EmitEnv that loaded a configuration text N >= 1 times records
\* the same sequence of rules (class_name, pseudo_elements, body) as one
\* that loaded it once, and every token has the same outcome on both.
C6_IdempotentLoad ==
    /\ defs = once.defs
    /\ (outcome.op = "parse_tailwind_str" => outcome.k = outcome.once_k)

\* a configuration that parsed, loaded three times, and a rule recorded
\* from a template that the EmitEnv now holds three times
C6_Witness ==
    /\ Len(loaded) = 3 /\ loaded[1].ret
    /\ Len(utilities) = 3 * Len(once.utilities)
    /\ outcome.op = "parse_tailwind_str" /\ outcome.k = "some"
    /\ Len(defs) = 2

\* the utility group and the variant chains of the last submitted token
parsed_of(o) ==
    duckwind_parser(lexer(IF o.prefix.some THEN SliceFrom(o.src, Len(o.prefix.v))
                          ELSE o.src).toks)

\* C7: when a has_value=false template named like the full name of the
\* token instantiates, the recorded body is that template's body, even if
\* a has_value=true template instantiates for the same token.
C7_ExactNamePreferred ==
    LET full == join(unit_strings(parsed_of(outcome).utility), <<"-">>)
        exact == {i \in DOMAIN utilities :
                     /\ utilities[i].name = full /\ ~utilities[i].has_value
                     /\ Utility_instantiate(utilities[i], theme, None, NoParam, FALSE).k = "ok"}
    IN (/\ outcome.op = "parse_tailwind_str" /\ outcome.k = "some"
        /\ parsed_of(outcome).variants = <<>> /\ exact # {})
           => \E i \in exact :
                  outcome.def.body
                      = Utility_instantiate(utilities[i], theme, None, NoParam, FALSE).s

\* wrap(V, body): the body after the one variant chain V
wrap(V, body) ==
    apply_variant([pseudo_elements |-> <<>>, class_name |-> <<>>, body |-> body],
                  V, theme, variants).def.body

\* wrap(vn, ... wrap(v2, wrap(v1, body)) ...)
RECURSIVE wrap_nested(_, _, _)
wrap_nested(chains, n, body) ==
    IF n = 0 THEN body ELSE wrap(chains[n], wrap_nested(chains, n - 1, body))

\* C8: the recorded body is wrap(vn, ... wrap(v1, body) ...): the variant
\* chains are applied in list order, the first-listed one innermost and the
\* last-listed one outermost.
C8_VariantsInListOrder ==
    LET parsed == parsed_of(outcome)
        body == utility_body(env_now, parsed.utility).body_to_set.v
    IN (outcome.op = "parse_tailwind_str" /\ outcome.k = "some")
           => /\ outcome.def.body = wrap_nested(parsed.variants, Len(parsed.variants), body)
              /\ (outcome.src = <<"s","m",":","h",":","a","-","x">> =>
                      outcome.def.body = <<"&",":","h","{","@","m","e","d","i","a"," ","(","w","i","d","t","h"," ",">","="," ","4","0","r","e","m",")"," ","{","\n","q",":","x","\n","}","}">>)
              /\ (outcome.src = <<"h",":","s","m",":","a","-","x">> =>
                      outcome.def.body = <<"@","m","e","d","i","a"," ","(","w","i","d","t","h"," ",">","="," ","4","0","r","e","m",")"," ","{","\n","&",":","h","{","q",":","x","}","\n","}">>)

\* a recorded token with two chains that wrap differently
C8_Witness ==
    /\ outcome.op = "parse_tailwind_str" /\ outcome.k = "some"
    /\ outcome.src = <<"s","m",":","h",":","a","-","x">>
    /\ outcome.def.body # wrap(<<String(<<"s","m">>)>>, wrap(<<String(<<"h">>)>>, <<"q",":","x">>))

\* the submitted tokens that carry a pseudo-element variant: the name, the
\* token, and the same token without that variant
PseudoElementTokens ==
    { [name |-> <<"b","e","f","o","r","e">>, src |-> <<"b","e","f","o","r","e",":","a","-","x">>, without |-> <<"a","-","x">>],
      [name |-> <<"b","e","f","o","r","e">>, src |-> <<"s","m",":","b","e","f","o","r","e",":","a","-","x">>, without |-> <<"s","m",":","a","-","x">>],
      [name |-> <<"f","i","r","s","t","-","l","e","t","t","e","r">>, src |-> <<"f","i","r","s","t","-","l","e","t","t","e","r",":","a","-","x">>, without |-> <<"a","-","x">>] }

\* C9: a token with a pseudo-element variant, in any position of the chain,
\* records a rule with that name in pseudo_elements and with the body that
\* the same token records without the variant.
C9_PseudoElementAppended ==
    \A t \in PseudoElementTokens :
        LET plain == parse_tailwind_str([env_now EXCEPT !.defs_generated = {}],
                                        None, t.without)
            repeated == /\ outcome.k = "none"
                        /\ escape_string_for_css(t.src) \in defs_generated
        IN (/\ outcome.op = "parse_tailwind_str" /\ outcome.src = t.src
            /\ ~outcome.prefix.some /\ plain.k = "some" /\ ~repeated)
               => /\ outcome.k = "some"
                  /\ outcome.def.pseudo_elements = <<t.name>>
                  /\ outcome.def.body = plain.def.body

\* the submitted tokens with a variant chain of no recognized form
UnrecognizedChainTokens == { <<"z","z",":","a","-","x">>, <<"m","i","n","-","m","d",":","a","-","x">> }

\* C10: a token with a variant chain of no recognized form records no
\* rule.
C10_UnknownChainNoRule ==
    (outcome.op = "parse_tailwind_str" /\ outcome.src \in UnrecognizedChainTokens)
        => outcome.k = "none"

(***************************************************************************)
(* The units of the compiler called on their own: Utility::instantiate,    *)
(* escape_string_for_css, the lexer, the parser and insert_alpha, each on  *)
(* inputs drawn from a bounded set.  outcome holds the last call and what  *)
(* it returned; the EmitEnv is not touched.  A unit keeps no state, so one *)
(* behaviour makes one call.                                               *)
(***************************************************************************)
\* value-taking templates of several lines, with several value calls on a
\* line
TemplateTexts ==
    << <<"@","u","t","i","l","i","t","y"," ","t","-","*"," ","{","a",":","-","-","v","a","l","u","e","(","i","n","t","e","g","e","r",")"," ","-","-","v","a","l","u","e","(","\"","x","\"",")",";","\n","b",":","-","-","v","a","l","u","e","(","a","n","y",")","/","-","-","v","a","l","u","e","(","i","n","t","e","g","e","r",")",";","\n","c",":","-","-","v","a","l","u","e","(","a","n","y",")","}">>,
       <<"@","u","t","i","l","i","t","y"," ","u","-","*"," ","{","d",":","-","-","v","a","l","u","e","(","-","-","k","-","*",")",";","\n","e",":","-","-","v","a","l","u","e","(","i","n","t","e","g","e","r",")","-","-","v","a","l","u","e","(","-","-","k","-","*",")",";","\n","f",":","-","-","v","a","l","u","e","(","[","a","n","y","]",")","}">>,
       <<"@","u","t","i","l","i","t","y"," ","v","-","*"," ","{","g",":","-","-","v","a","l","u","e","(","\"","y","\"",")"," ","-","-","v","a","l","u","e","(","a","n","y",")",";","\n","h",":","-","-","v","a","l","u","e","(","a","n","y",")","!","}">>,
       <<"@","u","t","i","l","i","t","y"," ","w","-","*"," ","{","i",":","1",";","\n","j",":","-","-","v","a","l","u","e","(","\"","y","\"",","," ","i","n","t","e","g","e","r",")","\n","}">> >>

\* the theme that the templates are instantiated against
UnitTheme == [vars |-> map_insert(EmptyMap, <<"k","-","1">>, <<"v">>), keyframes |-> EmptyMap]

Instantiate ==
    /\ outcome.op = "new"
    /\ \E t \in DOMAIN TemplateTexts, value \in {<<"1">>, <<"x">>, <<"y">>, <<"z","z">>, <<"2">>},
          is_arb \in BOOLEAN :
           \E utility \in {parse_utility(TemplateTexts[t], 1).v} :
              \E r \in {Utility_instantiate(utility, UnitTheme, Some(value), NoParam,
                                            is_arb)} :
                 outcome' = [op |-> "instantiate", k |-> r.k, parts |-> utility.parts,
                             value |-> value, is_arb |-> is_arb, s |-> r.s]
    /\ UNCHANGED <<defs, utilities, variants, theme, defs_generated, custom_properties,
                   loaded, ops, once>>

\* the characters of the names handed to escape_string_for_css: valid
\* ones, ASCII ones that are not valid (the backslash among them) and one
\* outside ASCII
EscapeAlphabet == {"a", "Z", "9", "_", "-", ":", "[", "\\", "é"}

\* length of the names handed to escape_string_for_css
MaxEscapeLen == 3

Escape ==
    /\ outcome.op = "new"
    /\ \E s \in UNION {[1..n -> EscapeAlphabet] : n \in 0..MaxEscapeLen} :
           outcome' = [op |-> "escape_string_for_css", k |-> "ok", src |-> s,
                       ret |-> escape_string_for_css(s)]
    /\ UNCHANGED <<defs, utilities, variants, theme, defs_generated, custom_properties,
                   loaded, ops, once>>

\* the characters of the texts handed to the lexer
LexAlphabet == {"[", "]", "a", "-", ":"}

\* length of the texts handed to the lexer
MaxLexLen == 4

Lex ==
    /\ outcome.op = "new"
    /\ \E s \in UNION {[1..n -> LexAlphabet] : n \in 0..MaxLexLen}
                 \cup {<<"[","r","[","e","]","d","]">>, <<"p","-","[","a",":","[","b","-","c","]","]",":","x">>, <<"[","[","a","]","[","b","]">>} :
           outcome' = [op |-> "lexer", k |-> "ok", src |-> s, toks |-> lex_from(s, 1, <<>>).toks]
    /\ UNCHANGED <<defs, utilities, variants, theme, defs_generated, custom_properties,
                   loaded, ops, once>>

\* the tokens handed to the parser, as their groups of segments: one or
\* two groups of one or two segments, and two tokens of three and four
\* groups
TokenGroups ==
    LET segments == {[t |-> "String", s |-> <<"a">>], [t |-> "String", s |-> <<"b">>],
                     [t |-> "Raw", s |-> <<"x">>]}
        groups == {<<x>> : x \in segments} \cup {<<x, y>> : x, y \in segments}
    IN {<<g>> : g \in groups} \cup {<<g, h>> : g, h \in groups}
       \cup {<<<<String(<<"m","d">>)>>, <<String(<<"h","o","v","e","r">>)>>, <<String(<<"b","g">>), String(<<"b","l","u","e">>)>>>>,
             <<<<String(<<"m","d">>)>>, <<[t |-> "Raw", s |-> <<"&",":","n","(","-","n","+","3",")">>]>>, <<String(<<"h","o","v","e","r">>)>>,
               <<String(<<"o","n","e">>), String(<<"t","w","o">>), [t |-> "Raw", s |-> <<"r","a","w">>]>>>>}

\* the text of a token: the segments of a group joined by '-', the groups
\* by ':', a Raw segment in brackets
token_text(groups) ==
    LET segment(x) == IF x.t = "Raw" THEN <<"[">> \o x.s \o <<"]">> ELSE x.s
        group(g) == join([k \in DOMAIN g |-> segment(g[k])], <<"-">>)
    IN join([k \in DOMAIN groups |-> group(groups[k])], <<":">>)

\* the tokens that begin with '-' or hold a '-' directly before a segment
NegativeTokens == {<<"-","t","r","a","n","s","l","a","t","e","-","x","-","1","/","2">>, <<"-","a">>, <<"-","a","-","b">>, <<"a",":","-","b">>, <<"a","-","-","b">>, <<"-","[","x","]">>}

Parse ==
    /\ outcome.op = "new"
    /\ \E s \in {token_text(groups) : groups \in TokenGroups} \cup NegativeTokens :
           \E r \in {duckwind_parser(lex_from(s, 1, <<>>).toks)} :
              outcome' = [op |-> "duckwind_parser", k |-> r.k, src |-> s,
                          variants |-> r.variants, utility |-> r.utility]
    /\ UNCHANGED <<defs, utilities, variants, theme, defs_generated, custom_properties,
                   loaded, ops, once>>

\* a utility declared twice, a static utility e-1, and two value-taking
\* utilities of which the longer name is declared first
CfgTie == <<"@","u","t","i","l","i","t","y"," ","e"," ","{","p","1","}","\n","@","u","t","i","l","i","t","y"," ","e"," ","{","p","2","}","\n","@","u","t","i","l","i","t","y"," ","e","-","1"," ","{","s","}","\n","@","u","t","i","l","i","t","y"," ","e","-","1","-","*"," ","{","r",":","-","-","v","a","l","u","e","(","i","n","t","e","g","e","r",")","}","\n","@","u","t","i","l","i","t","y"," ","e","-","*"," ","{","q",":","-","-","v","a","l","u","e","(","a","n","y",")","}">>

\* long-form variants by the text before and after their @slot; marker:
\* the marker at nesting depth 2, 3 and 1
SlotVariants ==
    << [name |-> <<"v">>, before |-> <<"&",":","v","{">>, after |-> <<"}">>],
       [name |-> <<"w">>, before |-> <<"@","m","e","d","i","a"," ","x","{"," ","&",":","w"," ","{","\n">>, after |-> <<"\n","}","}","z">>],
       [name |-> <<"u">>, before |-> <<>>, after |-> <<";","t">>] >>

\* the declaration @custom-variant NAME { BODY } of a variant
slot_declaration(v) ==
    <<"@","c","u","s","t","o","m","-","v","a","r","i","a","n","t"," ">> \o v.name \o <<" ","{">> \o v.before \o <<"@","s","l","o","t",";">> \o v.after \o <<"}">>

\* the configuration texts of the units: CfgTie; a text that starts with
\* a long-form variant; a text with two long-form variants after other
\* declarations and white space; a utility with a custom property and a
\* variant; a theme with a text size, a typography utility that reads it
\* and a sizing utility
UnitConfigText(c) ==
    IF c = "Tie" THEN CfgTie
    ELSE IF c = "Property"
    THEN <<"@","u","t","i","l","i","t","y"," ","g"," ","{","@","t","w","-","p","r","o","p","e","r","t","y"," ","-","-","x"," ","0",";","\n","y","}","\n","@","c","u","s","t","o","m","-","v","a","r","i","a","n","t"," ","h"," ","{","&",":","h","{","@","s","l","o","t",";","}","}">>
    ELSE IF c = "Typography"
    THEN <<"@","t","h","e","m","e"," ","{","-","-","t","e","x","t","-","s","m",":"," ","1",";","}","\n","@","u","t","i","l","i","t","y"," ","t","e","x","t","-","*"," ","{","f","o","n","t","-","s","i","z","e",":","-","-","v","a","l","u","e","(","-","-","t","e","x","t","-","*",")","}","\n","@","u","t","i","l","i","t","y"," ","w","-","*"," ","{","w","i","d","t","h",":","-","-","v","a","l","u","e","(","n","u","m","b","e","r",","," ","r","a","t","i","o",","," ","-","-","t","e","x","t","-","*",")","}">>
    ELSE IF c = "SlotFirst" THEN slot_declaration(SlotVariants[1])
    ELSE <<"@","u","t","i","l","i","t","y"," ","z"," ","{","y","}","\n"," "," ">> \o slot_declaration(SlotVariants[2]) \o <<"\n">>
         \o slot_declaration(SlotVariants[3])

LoadUnitConfig ==
    /\ outcome.op = "new"
    /\ \E c \in {"Tie", "SlotFirst", "SlotLater", "Typography", "Property"} :
           \E r \in {load_config(env_now, UnitConfigText(c))} :
              /\ env_becomes(r.env)
              /\ outcome' = [op |-> "load_config", k |-> "ok", cfg |-> c, ret |-> r.ret]
              /\ loaded' = Append(loaded, [cfg |-> c, ret |-> r.ret])
    /\ UNCHANGED <<ops, once>>

\* the tokens compiled on a new EmitEnv or after a configuration of the
\* units: built-in and user-defined variants around an arbitrary property,
\* names that several templates match, and names with a /MODIFIER
CompileTokens ==
    { <<"g","r","o","u","p","-","h","o","v","e","r",":","[","c",":","d","]">>, <<"g","r","o","u","p","-","h","o","v","e","r","/","m","e","n","u",":","[","c",":","d","]">>, <<"g","r","o","u","p","-","h","a","s","-","f","o","c","u","s","/","m","e","n","u",":","[","c",":","d","]">>,
      <<"s","u","p","p","o","r","t","s","-","[","d","i","s","p","l","a","y",":","g","r","i","d","]",":","[","c",":","d","]">>, <<"n","o","t","-","s","u","p","p","o","r","t","s","-","[","d","i","s","p","l","a","y",":","g","r","i","d","]",":","[","c",":","d","]">>,
      <<"e">>, <<"e","-","1">>, <<"e","-","1","-","2">>, <<"e","-","1","-","x">>, <<"e","-","7">>, <<"f">>,
      <<"v",":","[","c",":","d","]">>, <<"w",":","[","c",":","d","]">>, <<"u",":","[","c",":","d","]">>, <<"u",":","w",":","[","c",":","d","]">>,
      <<"t","e","x","t","-","s","m">>, <<"t","e","x","t","-","s","m","/","2">>, <<"t","e","x","t","-","x","l","/","2">>, <<"w","-","s","m","/","2">>, <<"w","-","1",".","5","/","2">>, <<"w","-","2","/","3">>, <<"w","-","2">>,
      <<"g">>, <<"h",":","g">>, <<"z","z",":","g">>, <<"g","-","1">>, <<"g",":">>, <<"+">>,
      <<"a","r","i","a","-","b","u","s","y",":","[","c",":","d","]">>, <<"a","r","i","a","-","[","x","]",":","[","c",":","d","]">>, <<"n","o","t","-","a","r","i","a","-","b","u","s","y",":","[","c",":","d","]">>,
      <<"d","a","t","a","-","[","x","]",":","[","c",":","d","]">>, <<"d","a","t","a","-","a",":","[","c",":","d","]">>, <<"n","t","h","-","[","2","]",":","[","c",":","d","]">>, <<"h","a","s","-","[","x","]",":","[","c",":","d","]">>,
      <<"h","a","s","-","a",":","[","c",":","d","]">>, <<"n","o","t","-","h","a","s","-","a",":","[","c",":","d","]">>, <<"p","e","e","r","-","h","o","v","e","r",":","[","c",":","d","]">>, <<"i","n","-","[","x","]",":","[","c",":","d","]">>,
      <<"s","m",":","[","c",":","d","]">>, <<"m","i","n","-","[","1","]",":","[","c",":","d","]">>, <<"m","a","x","-","[","1","]",":","[","c",":","d","]">>, <<"b","e","f","o","r","e",":","[","c",":","d","]">>,
      <<"[","&",">","p","]",":","[","c",":","d","]">>, <<"s","m",":","d","a","t","a","-","a",":","g">> }

Compile ==
    /\ outcome.op \in {"new", "load_config"}
    /\ \E src \in CompileTokens :
           \E r \in {parse_tailwind_str(env_now, None, src)} :
              /\ env_becomes(r.env)
              /\ outcome' = [op |-> "parse_tailwind_str", k |-> r.k, prefix |-> None,
                             src |-> src, def |-> r.def, skip |-> r.skip]
    /\ UNCHANGED <<loaded, ops, once>>

\* the decimal text of a percentage followed by "%", as the caller of
\* insert_alpha writes it
percent_text(pct) ==
    LET digit(n) == <<"0","1","2","3","4","5","6","7","8","9">>[n + 1]
    IN (IF pct >= 100 THEN <<digit(pct \div 100)>> ELSE <<>>)
       \o (IF pct >= 10 THEN <<digit((pct \div 10) % 10)>> ELSE <<>>)
       \o <<digit(pct % 10), "%">>

InsertAlpha ==
    /\ outcome.op = "new"
    /\ \E color \in {<<"#","f","f","0","0","0","0">>, <<"#","1","A","2","b","3","C">>, <<"#","f","0","0">>, <<"#","0","9","c">>}, pct \in 0..100 :
           outcome' = [op |-> "insert_alpha", k |-> "ok", color |-> color, pct |-> pct,
                       ret |-> insert_alpha(color, percent_text(pct))]
    /\ UNCHANGED <<defs, utilities, variants, theme, defs_generated, custom_properties,
                   loaded, ops, once>>


\* ValueUsage::literal_matches of Type(t) and of ArbType(t) on the same
\* candidate: every ValueType, candidates of every class of the
\* classifier, from a String and from a Raw segment
LiteralMatches ==
    /\ outcome.op = "new"
    /\ \E t \in {"Length", "Color", "Ratio", "Number", "Fr", "Integer", "Percentage",
                 "AbsoluteSize", "Angle", "Any", "Position"},
          value \in {<<"1","p","x">>, <<"r","e","d">>, <<"#","f","f","0","0","0","0">>, <<"1","/","2">>, <<"1",".","5">>, <<"1","f","r">>, <<"1","2">>, <<"-","3">>,
                     <<"5","0","%">>, <<"s","m","a","l","l">>, <<"9","0","d","e","g">>, <<"*">>, <<"l","e","f","t">>, <<"x">>, <<"1",".","5","x">>},
          is_arb \in BOOLEAN :
           \E tag \in {data_type_parser(value)} :
              outcome' = [op |-> "literal_matches", k |-> "ok", t |-> t, value |-> value,
                          is_arb |-> is_arb, tag |-> tag,
                          type |-> literal_matches([t |-> "Type", s |-> t], UnitTheme,
                                                   value, tag, NoParam, is_arb).k,
                          arb_type |-> literal_matches([t |-> "ArbType", s |-> t], UnitTheme,
                                                       value, tag, NoParam, is_arb).k]
    /\ UNCHANGED <<defs, utilities, variants, theme, defs_generated, custom_properties,
                   loaded, ops, once>>

\* length of the --VAR templates handed to parse_value_param, after "--"
MaxTemplateLen == 4

\* parse_value_param on "--" followed by every text of template
\* characters and marks, and the lookup of ValueUsage::literal_matches
\* with the parameter it returns
ParseValueParam ==
    /\ outcome.op = "new"
    /\ \E run \in UNION {[1..n -> {"k", "-", "1", "*"}] : n \in 0..MaxTemplateLen} :
           \E p \in {parse_value_param(<<"-","-">> \o run, 1)} :
              outcome' =
                  IF p.ok
                  THEN [op |-> "parse_value_param", k |-> "ok", src |-> <<"-","-">> \o run,
                        template |-> p.v.s, insert_at |-> p.v.at,
                        lookup |-> literal_matches(p.v, UnitTheme, <<"1">>,
                                                   data_type_parser(<<"1">>), NoParam, FALSE).k]
                  ELSE [op |-> "parse_value_param", k |-> "err", src |-> <<"-","-">> \o run]
    /\ UNCHANGED <<defs, utilities, variants, theme, defs_generated, custom_properties,
                   loaded, ops, once>>

\* ValueUsage::literal_matches of a Var parameter whose theme value is a
\* functional colour, with the Transparency of an alpha modifier: every
\* head, without and with an alpha of its own, and parentheses inside
ApplyAlpha ==
    /\ outcome.op = "new"
    /\ \E head \in {<<"r","g","b">>, <<"h","s","l">>, <<"h","w","b">>, <<"l","a","b">>, <<"l","c","h">>, <<"o","k","l","a","b">>, <<"o","k","l","c","h">>, <<"c","o","l","o","r">>},
          args \in {<<"(","1"," ","2"," ","3",")">>, <<"(","1"," ","2"," ","3"," ","/"," ","0",".","5",")">>, <<"(","c","a","l","c","(","1",")"," ","2"," ","3",")">>, <<"(","1"," ","2"," ","3","/","9","%",")">>},
          pct \in {0, 7, 50, 100} :
           \E m \in {literal_matches([t |-> "Var", s |-> <<"c","-">>, at |-> 2],
                                     [vars |-> map_insert(EmptyMap, <<"c","-","1">>, head \o args),
                                      keyframes |-> EmptyMap],
                                     <<"1">>, data_type_parser(<<"1">>),
                                     [t |-> "Transparency", s |-> percent_text(pct)],
                                     FALSE)} :
              outcome' = [op |-> "apply_alpha", k |-> m.k, head |-> head, color |-> head \o args,
                          pct |-> pct, replacement |-> m.r]
    /\ UNCHANGED <<defs, utilities, variants, theme, defs_generated, custom_properties,
                   loaded, ops, once>>

\* number of pieces of a text handed to parse_full_string
MaxScanLen == 3

\* parse_full_string on a new EmitEnv: texts of arbitrary properties,
\* blanks and characters of two and three bytes, outside and inside the
\* brackets
ScanText ==
    /\ outcome.op = "new"
    /\ \E pieces \in UNION {[1..n -> {<<"[","c","]">>, <<"[","ß","]">>, <<"é">>, <<"€">>, <<" ">>}] :
                               n \in 0..MaxScanLen} :
           \E r \in {parse_full_string(env_now, None, join(pieces, <<>>))} :
              /\ env_becomes(r.env)
              /\ outcome' = [op |-> "parse_full_string", k |-> r.k,
                             txt |-> join(pieces, <<>>), trace |-> r.trace]
    /\ UNCHANGED <<loaded, ops, once>>

NextUnits ==
    Instantiate \/ Escape \/ Lex \/ Parse \/ LoadUnitConfig \/ Compile \/ InsertAlpha
    \/ LiteralMatches \/ ParseValueParam \/ ApplyAlpha \/ ScanText

SpecUnits == Init /\ [][NextUnits]_vars

(***************************************************************************)
(* Two EmitEnvs that hold the same configuration (InitIdem) and each       *)
(* receive a part of a token sequence: the variables of the EmitEnv are    *)
(* the first one and once is the second one.  outcome.left and             *)
(* outcome.right are the tokens submitted so far to each.                  *)
(***************************************************************************)
\* number of tokens submitted to one EmitEnv
MaxPart == 2

\* the tokens submitted so far to one of the two EmitEnvs
part_of(o, side) ==
    IF o.op = "load_config" THEN <<>> ELSE IF side = "left" THEN o.left ELSE o.right

SubmitPart ==
    /\ outcome.k # "panic"
    /\ \E side \in {"left", "right"}, src \in {<<"a","-","x">>, <<"a","-","b">>, <<"h",":","a","-","x">>, <<"z","z",":","a","-","x">>} :
           /\ Len(part_of(outcome, side)) < MaxPart
           /\ \E r \in {parse_tailwind_str(IF side = "left" THEN env_now ELSE once,
                                           None, src)} :
                 /\ IF side = "left"
                    THEN env_becomes(r.env) /\ UNCHANGED once
                    ELSE /\ once' = r.env
                         /\ UNCHANGED <<defs, utilities, variants, theme, defs_generated,
                                        custom_properties>>
                 /\ outcome' =
                        [op |-> "parse_tailwind_str", k |-> r.k, prefix |-> None,
                         src |-> src, def |-> r.def, skip |-> r.skip,
                         left |-> part_of(outcome, "left")
                                  \o (IF side = "left" THEN <<src>> ELSE <<>>),
                         right |-> part_of(outcome, "right")
                                   \o (IF side = "right" THEN <<src>> ELSE <<>>)]
    /\ UNCHANGED <<loaded, ops>>

SpecParts == InitIdem /\ [][SubmitPart]_vars

(***************************************************************************)
(* The lines of a template, as a reader of the template text sees them:    *)
(* the String parts cut at their newlines, the value calls in between.     *)
(***************************************************************************)
\* the pieces of a string between its newlines
RECURSIVE split_newlines(_, _)
split_newlines(s, cur) ==
    IF Len(s) = 0 THEN <<cur>>
    ELSE IF s[1] = "\n" THEN <<cur>> \o split_newlines(Tail(s), <<>>)
    ELSE split_newlines(Tail(s), Append(cur, s[1]))

\* the lines of the parts: each line a sequence of texts and value calls
RECURSIVE template_lines(_, _)
template_lines(parts, cur) ==
    LET text(x) == [t |-> "String", s |-> x, params |-> <<>>]
        cut(pieces) ==
            IF Len(pieces) = 1
            THEN template_lines(Tail(parts), Append(cur, text(pieces[1])))
            ELSE <<Append(cur, text(pieces[1]))>>
                 \o [k \in 1..(Len(pieces) - 2) |-> <<text(pieces[k + 1])>>]
                 \o template_lines(Tail(parts), <<text(pieces[Len(pieces)])>>)
    IN IF Len(parts) = 0 THEN <<cur>>
       ELSE IF parts[1].t = "ValueCall"
       THEN template_lines(Tail(parts), Append(cur, parts[1]))
       ELSE cut(split_newlines(parts[1].s, <<>>))

\* whether a value call has a parameter that matches the candidate, and
\* what it is replaced with
call_matches(call, o) ==
    \E k \in DOMAIN call.params :
        literal_matches(call.params[k], UnitTheme, o.value, data_type_parser(o.value),
                        NoParam, o.is_arb).k = "some"

call_text(call, o) ==
    LET k == CHOOSE k \in DOMAIN call.params :
                 /\ literal_matches(call.params[k], UnitTheme, o.value,
                                    data_type_parser(o.value), NoParam, o.is_arb).k = "some"
                 /\ \A m \in 1..(k - 1) :
                        literal_matches(call.params[m], UnitTheme, o.value,
                                        data_type_parser(o.value), NoParam, o.is_arb).k
                            # "some"
        m == literal_matches(call.params[k], UnitTheme, o.value,
                             data_type_parser(o.value), NoParam, o.is_arb)
    IN IF m.r.some THEN m.r.v ELSE o.value

has_call(line) == \E k \in DOMAIN line : line[k].t = "ValueCall"

line_satisfied(line, o) ==
    \A k \in DOMAIN line : line[k].t = "ValueCall" => call_matches(line[k], o)

RECURSIVE line_text(_, _)
line_text(line, o) ==
    IF Len(line) = 0 THEN <<>>
    ELSE (IF line[1].t = "String" THEN line[1].s ELSE call_text(line[1], o))
         \o line_text(Tail(line), o)

\* C11: when instantiate on a value-taking template returns a body, the
\* body is one line of the template, that line has a value call, and every
\* value call on it has a parameter that matches the candidate; no text
\* of a line with an unmatched value call is in the body, unless the
\* returned line has the same text.
C11_LineOnlyIfAllCallsMatch ==
    LET lines == template_lines(outcome.parts, <<>>)
        returned == {k \in DOMAIN lines :
                        /\ has_call(lines[k]) /\ line_satisfied(lines[k], outcome)
                        /\ outcome.s = line_text(lines[k], outcome)}
        texts(k) == {lines[k][j].s :
                        j \in {i \in DOMAIN lines[k] :
                                  lines[k][i].t = "String" /\ Len(lines[k][i].s) > 0}}
    IN (outcome.op = "instantiate" /\ outcome.k = "ok")
           => /\ returned # {}
              /\ \A k \in DOMAIN lines :
                     ~line_satisfied(lines[k], outcome)
                         => \A x \in texts(k) :
                                contains(outcome.s, x)
                                    => \E r \in returned : x \in texts(r)

\* a body was returned from a template whose first line has a value call
\* that matches the candidate and one that does not
C11_Witness ==
    LET lines == template_lines(outcome.parts, <<>>)
    IN /\ outcome.op = "instantiate" /\ outcome.k = "ok"
       /\ ~line_satisfied(lines[1], outcome)
       /\ \E k \in DOMAIN lines[1] :
              lines[1][k].t = "ValueCall" /\ call_matches(lines[1][k], outcome)
       /\ outcome.s = line_text(lines[2], outcome)

\* the characters that the CSS escaping prefixes: ASCII and outside
\* [A-Za-z0-9_-]
needs_backslash(c) ==
    c \notin NonAscii /\ c \notin Lower \cup Upper \cup Digit \cup {"_", "-"}

\* the text without the backslash of every pair (backslash, character)
RECURSIVE without_backslashes(_)
without_backslashes(r) ==
    IF Len(r) = 0 THEN <<>>
    ELSE IF r[1] = "\\" /\ Len(r) >= 2
    THEN <<r[2]>> \o without_backslashes(SubSeq(r, 3, Len(r)))
    ELSE <<r[1]>> \o without_backslashes(Tail(r))

\* C12: escape_string_for_css(s) is s with one backslash before each ASCII
\* character outside [A-Za-z0-9_-] and nothing else changed; characters of
\* [A-Za-z0-9_-] and characters outside ASCII are kept as they are, and
\* deleting the inserted backslashes gives s back.
C12_EscapeInsertsBackslashes ==
    LET s == outcome.src
        r == outcome.ret
        pos(i) == i + Cardinality({j \in 1..i : needs_backslash(s[j])})
    IN outcome.op = "escape_string_for_css"
           => /\ Len(r) = pos(Len(s))
              /\ \A i \in 1..Len(s) :
                     /\ r[pos(i)] = s[i]
                     /\ needs_backslash(s[i]) => r[pos(i) - 1] = "\\"
              /\ without_backslashes(r) = s

\* a name with a backslash, a character outside ASCII and a colon
C12_Witness ==
    /\ outcome.op = "escape_string_for_css"
    /\ outcome.src = <<"\\", "é", ":">>
    /\ outcome.ret = <<"\\", "\\", "é", "\\", ":">>

(***************************************************************************)
(* The bracket groups of a text, found by counting brackets.               *)
(***************************************************************************)
\* opening minus closing brackets among s[i..k]
bracket_depth(s, i, k) ==
    Cardinality({m \in i..k : s[m] = "["}) - Cardinality({m \in i..k : s[m] = "]"})

\* the position of the "]" that matches the "[" at i, 0 when there is none
group_end(s, i) ==
    LET closing == {j \in (i + 1)..Len(s) :
                       /\ s[j] = "]" /\ bracket_depth(s, i, j) = 0
                       /\ \A k \in i..(j - 1) : bracket_depth(s, i, k) > 0}
    IN IF s[i] = "[" /\ closing # {} THEN CHOOSE j \in closing : TRUE ELSE 0

\* the tokens of s from i on: one Raw token for every outermost balanced
\* group, holding the text between its brackets; outside the groups the
\* runs of identifier characters and the control characters
RECURSIVE expected_tokens(_, _)
expected_tokens(s, i) ==
    LET run_stop == CHOOSE e \in i..(Len(s) + 1) :
                        /\ \A k \in i..(e - 1) : s[k] \in Lower \cup Upper \cup Digit \cup {"/", "#"}
                        /\ (e <= Len(s) => s[e] \notin Lower \cup Upper \cup Digit \cup {"/", "#"})
    IN IF i > Len(s) THEN <<>>
       ELSE IF group_end(s, i) > 0
       THEN <<[t |-> "Raw", s |-> SubSeq(s, i + 1, group_end(s, i) - 1)]>>
            \o expected_tokens(s, group_end(s, i) + 1)
       ELSE IF run_stop > i
       THEN <<[t |-> "Unit", s |-> SubSeq(s, i, run_stop - 1)]>>
            \o expected_tokens(s, run_stop)
       ELSE <<[t |-> "Ctrl", s |-> <<s[i]>>]>> \o expected_tokens(s, i + 1)

\* C13: the lexer emits one Raw token for every outermost balanced [ ... ]
\* group, whose text is everything between the two brackets with inner
\* pairs kept as they are, and no Ctrl or Unit token for a character inside
\* the group; [r[e]d] gives Raw(r[e]d) and [] gives Raw of the empty text.
C13_RawTokenPerOutermostGroup ==
    outcome.op = "lexer"
        => /\ outcome.toks = expected_tokens(outcome.src, 1)
           /\ (outcome.src = <<"[","r","[","e","]","d","]">>
                   => outcome.toks = <<[t |-> "Raw", s |-> <<"r","[","e","]","d">>]>>)
           /\ (outcome.src = <<"[","]">> => outcome.toks = <<[t |-> "Raw", s |-> <<>>]>>)

\* a group with an inner pair, a '-' and a ':' inside, between other
\* tokens
C13_Witness ==
    /\ outcome.op = "lexer" /\ outcome.src = <<"p","-","[","a",":","[","b","-","c","]","]",":","x">>
    /\ outcome.toks = <<[t |-> "Unit", s |-> <<"p">>], [t |-> "Ctrl", s |-> <<"-">>],
                        [t |-> "Raw", s |-> <<"a",":","[","b","-","c","]">>], [t |-> "Ctrl", s |-> <<":">>],
                        [t |-> "Unit", s |-> <<"x">>]>>

\* C14: a token of Ident/Raw segments joined by '-' and grouped by ':'
\* parses, with every group except the last in variants, in source order,
\* and the last group in utility as its list of segments; no group is lost
\* or moved.
C14_GroupsKeptInOrder ==
    \A groups \in TokenGroups :
        (outcome.op = "duckwind_parser" /\ outcome.src = token_text(groups))
            => /\ outcome.k = "ok"
               /\ outcome.variants = SubSeq(groups, 1, Len(groups) - 1)
               /\ outcome.utility = groups[Len(groups)]

\* C19: a token that begins with '-' parses, and the '-' directly before
\* a segment is kept as the first character of that segment's text.
C19_LeadingHyphenKept ==
    (outcome.op = "duckwind_parser" /\ outcome.src \in {<<"-","t","r","a","n","s","l","a","t","e","-","x","-","1","/","2">>, <<"-","a">>, <<"-","a","-","b">>})
        => /\ outcome.k = "ok"
           /\ Len(outcome.utility) > 0
           /\ outcome.utility[1].s
                  = (IF outcome.src = <<"-","t","r","a","n","s","l","a","t","e","-","x","-","1","/","2">> THEN <<"-","t","r","a","n","s","l","a","t","e">> ELSE <<"-","a">>)

\* C15: a scoped variant group-REST/NAME uses the class .group\/NAME and
\* builds its condition from REST alone, without the /NAME text.
C15_GroupNameNotInCondition ==
    outcome.op = "parse_tailwind_str"
        => /\ (outcome.src = <<"g","r","o","u","p","-","h","o","v","e","r","/","m","e","n","u",":","[","c",":","d","]">>
                   => /\ outcome.k = "some"
                      /\ outcome.def.body
                             = <<"&",":","i","s","(",":","w","h","e","r","e","(",".","g","r","o","u","p","\\","/","m","e","n","u",")",":","i","s","(",":","h","o","v","e","r",")"," ","*",")"," ","{","\n","c",":","d","\n","}">>)
           /\ (outcome.src = <<"g","r","o","u","p","-","h","a","s","-","f","o","c","u","s","/","m","e","n","u",":","[","c",":","d","]">>
                   => /\ outcome.k = "some"
                      /\ contains(outcome.def.body, <<":","w","h","e","r","e","(",".","g","r","o","u","p","\\","/","m","e","n","u",")",":","h","a","s","(",":","f","o","c","u","s",")">>)
                      /\ ~contains(outcome.def.body, <<"f","o","c","u","s","/","m","e","n","u">>))

\* C16: supports-[COND] wraps the body as @supports (COND) { body } and
\* not-supports-[COND] as @supports (not COND) { body }, COND being the
\* text of the bracketed segment.
C16_SupportsCondition ==
    outcome.op = "parse_tailwind_str"
        => /\ (outcome.src = <<"s","u","p","p","o","r","t","s","-","[","d","i","s","p","l","a","y",":","g","r","i","d","]",":","[","c",":","d","]">>
                   => /\ outcome.k = "some"
                      /\ outcome.def.body = <<"@","s","u","p","p","o","r","t","s"," ","(","d","i","s","p","l","a","y",":","g","r","i","d",")"," ","{","\n","c",":","d","\n","}">>)
           /\ (outcome.src = <<"n","o","t","-","s","u","p","p","o","r","t","s","-","[","d","i","s","p","l","a","y",":","g","r","i","d","]",":","[","c",":","d","]">>
                   => /\ outcome.k = "some"
                      /\ outcome.def.body = <<"@","s","u","p","p","o","r","t","s"," ","(","n","o","t"," ","d","i","s","p","l","a","y",":","g","r","i","d",")"," ","{","\n","c",":","d","\n","}">>)

\* the templates that parse_tailwind_str tries for a name, in evaluation
\* order: those named like the whole name and taking no value, then the
\* value-taking ones whose name the whole name starts with, then the
\* value-taking ones named like the name without its last segment, each
\* group in declaration order; every entry with the value it is given
tried_templates(full, pre_str, last_str) ==
    LET pick(sel(_), val(_)) ==
            LET idx == {i \in DOMAIN utilities : sel(utilities[i])}
                nth(n) == CHOOSE i \in idx : Cardinality({j \in idx : j < i}) = n - 1
            IN [n \in 1..Cardinality(idx) |->
                   [utility |-> utilities[nth(n)], value |-> val(utilities[nth(n)])]]
        exact(u) == u.name = full /\ ~u.has_value
        prefix(u) == u.has_value /\ starts_with(full, u.name) /\ Len(full) > Len(u.name)
        named(u) == u.has_value /\ u.name = pre_str
        no_value(u) == None
        rest(u) == Some(SliceFrom(full, Len(u.name) + 1))
        last_segment(u) == Some(last_str)
    IN pick(exact, no_value) \o pick(prefix, rest) \o pick(named, last_segment)

\* the bodies of the templates that instantiate, in evaluation order
RECURSIVE instantiated_bodies(_)
instantiated_bodies(tried) ==
    IF Len(tried) = 0 THEN <<>>
    ELSE LET r == Utility_instantiate(tried[1].utility, theme, tried[1].value,
                                      NoParam, FALSE)
         IN (IF r.k = "ok" THEN <<r.s>> ELSE <<>>) \o instantiated_bodies(Tail(tried))

\* C20: when several templates instantiate for one token, one rule is
\* recorded for the token and its body is the one written last in
\* evaluation order: exact-name templates, then prefix-matching value
\* templates, then templates named s_1-...-s_{k-1}, each group in
\* declaration order.
C20_LastWrittenBodyWins ==
    LET segments == unit_strings(parsed_of(outcome).utility)
        bodies == instantiated_bodies(
                      tried_templates(join(segments, <<"-">>),
                                      join(SubSeq(segments, 1, Len(segments) - 1), <<"-">>),
                                      segments[Len(segments)]))
    IN (/\ outcome.op = "parse_tailwind_str"
        /\ outcome.src \in {<<"e">>, <<"e","-","1">>, <<"e","-","1","-","2">>, <<"e","-","1","-","x">>, <<"e","-","7">>, <<"f">>}
        /\ Len(bodies) >= 2)
           => /\ outcome.k = "some"
              /\ outcome.def.body = bodies[Len(bodies)]
              /\ Cardinality({i \in DOMAIN defs :
                                 defs[i].class_name = outcome.def.class_name}) = 1
              /\ (outcome.src = <<"e">> => outcome.def.body = <<"p","2">>)
              /\ (outcome.src = <<"e","-","1">> => outcome.def.body = <<"q",":","1">>)
              /\ (outcome.src = <<"e","-","1","-","2">> => outcome.def.body = <<"r",":","2">>)

\* e-1-2 was compiled: the prefix group wrote r:2 and then q:1-2, the
\* last group wrote r:2 again
C20_Witness ==
    /\ outcome.op = "parse_tailwind_str" /\ outcome.src = <<"e","-","1","-","2">>
    /\ outcome.k = "some" /\ Len(utilities) = 5
    /\ instantiated_bodies(tried_templates(<<"e","-","1","-","2">>, <<"e","-","1">>, <<"2">>))
           = <<<<"r",":","2">>, <<"q",":","1","-","2">>, <<"r",":","2">>>>

\* the two upper-case hex digits of round(pct / 100 * 255)
alpha_digits(pct) ==
    LET n == (2 * 255 * pct + 100) \div 200
        hex == [d \in 0..15 |-> <<"0","1","2","3","4","5","6","7","8","9",
                                   "A","B","C","D","E","F">>[d + 1]]
        pair == CHOOSE ab \in (0..15) \X (0..15) : 16 * ab[1] + ab[2] = n
    IN <<hex[pair[1]], hex[pair[2]]>>

\* C17: for a colour #RRGGBB and a whole percentage 0..100, insert_alpha
\* returns the seven characters of the colour followed by the two
\* upper-case hex digits of round(pct/100*255): nine characters with one
\* '#'; a colour #RGB is first expanded to #RRGGBB.
C17_HexAlphaAppended ==
    LET c == outcome.color
        six == IF Len(c) = 4 THEN <<c[2], c[2], c[3], c[3], c[4], c[4]>>
               ELSE SubSeq(c, 2, 7)
    IN outcome.op = "insert_alpha"
           => /\ outcome.ret.some
              /\ outcome.ret.v = <<"#">> \o six \o alpha_digits(outcome.pct)
              /\ Len(outcome.ret.v) = 9
              /\ Cardinality({k \in DOMAIN outcome.ret.v : outcome.ret.v[k] = "#"}) = 1

\* C18: a long-form @custom-variant NAME { BODY } with one @slot; marker,
\* at any nesting depth and at any offset of the configuration text, is
\* stored with the marker's offset inside the stored body as target, and
\* applying it to an inner body B gives BODY with the marker replaced by B.
C18_SlotReplacedByBody ==
    \A n \in DOMAIN SlotVariants :
        LET v == SlotVariants[n]
            stored == {i \in DOMAIN variants : variants[i].name = v.name}
        IN /\ \A i \in stored :
                  /\ variants[i].body = v.before \o v.after
                  /\ variants[i].target = Len(v.before)
                  /\ variants[i].target <= Len(variants[i].body)
           /\ (/\ outcome.op = "parse_tailwind_str" /\ stored # {}
               /\ outcome.src = v.name \o <<":","[","c",":","d","]">>)
                  => /\ outcome.k = "some"
                     /\ outcome.def.body = v.before \o <<"c",":","d">> \o v.after
           /\ (/\ outcome.op = "parse_tailwind_str" /\ outcome.src = <<"u",":","w",":","[","c",":","d","]">>
               /\ Len(variants) = 2)
                  => /\ outcome.k = "some"
                     /\ outcome.def.body
                            = <<"@","m","e","d","i","a"," ","x","{"," ","&",":","w"," ","{","\n">> \o <<"c",":","d",";","t">> \o <<"\n","}","}","z">>

\* the variant w, declared after a utility and white space with its
\* marker at depth 3, was applied
C18_Witness ==
    /\ outcome.op = "parse_tailwind_str" /\ outcome.src = <<"w",":","[","c",":","d","]">>
    /\ outcome.k = "some"
    /\ Len(utilities) = 1 /\ Len(variants) = 2 /\ variants[1].name = <<"w">>
    /\ variants[1].target = 16

\* C21: a Type(T) parameter matches only when the class of the candidate
\* is T (Number also accepts Integer, Any accepts every class) and the
\* candidate is not from a Raw segment; an ArbType(T) parameter matches
\* under the same rule only when the candidate is from a Raw segment; the
\* two never match the same candidate.
C21_TypeAndArbTypeExclusive ==
    LET type_rule ==
            \/ outcome.t = "Any"
            \/ outcome.tag = outcome.t
            \/ (outcome.t = "Number" /\ outcome.tag = "Integer")
    IN outcome.op = "literal_matches"
           => /\ (outcome.type = "some" => (type_rule /\ ~outcome.is_arb))
              /\ (outcome.arb_type = "some" => (type_rule /\ outcome.is_arb))
              /\ ~(outcome.type = "some" /\ outcome.arb_type = "some")

\* an Integer from a Raw segment that ArbType(Number) matches and
\* Type(Number) does not
C21_Witness ==
    /\ outcome.op = "literal_matches"
    /\ outcome.t = "Number" /\ outcome.tag = "Integer" /\ outcome.is_arb
    /\ outcome.arb_type = "some" /\ outcome.type = "none"

\* C22: a --VAR template is accepted only if it holds exactly one '*';
\* the stored insert_at is the offset of that '*' in the template and is
\* at most the length of the stored text, so the lookup key can be formed
\* for every candidate.
C22_OneStarTemplate ==
    LET run == SliceFrom(outcome.src, 2)
        stars == {j \in DOMAIN run : run[j] = "*"}
    IN (outcome.op = "parse_value_param" /\ outcome.k = "ok")
           => /\ Cardinality(stars) = 1
              /\ \A j \in stars : outcome.insert_at = j - 1
              /\ outcome.insert_at <= Len(outcome.template)
              /\ outcome.lookup # "panic"

\* C23: for a colour replacement of functional form with the head rgb,
\* hsl, hwb, lab, lch, oklab, oklch or color, an alpha modifier pct% puts
\* " / pct%" directly before the closing ')' when the value holds no '/',
\* and leaves the value as it is when it holds a '/'.
C23_FunctionalAlphaInserted ==
    LET c == outcome.color
        with_alpha == SubSeq(c, 1, Len(c) - 1) \o <<" ","/"," ">> \o percent_text(outcome.pct) \o <<")">>
    IN outcome.op = "apply_alpha"
           => /\ outcome.k = "some" /\ outcome.replacement.some
              /\ outcome.replacement.v = IF contains(c, <<"/">>) THEN c ELSE with_alpha

\* C24: a /MODIFIER on the last segment appends a line-height declaration
\* only when the name of the utility begins with "text"; the body recorded
\* for a token of another utility holds no line-height declaration.
C24_LineHeightOnlyForText ==
    LET pre_str ==
            join(unit_strings(SubSeq(parsed_of(outcome).utility, 1,
                                     Len(parsed_of(outcome).utility) - 1)), <<"-">>)
    IN (outcome.op = "parse_tailwind_str" /\ outcome.k = "some")
           => /\ contains(outcome.def.body, <<"l","i","n","e","-","h","e","i","g","h","t">>) => starts_with(pre_str, <<"t","e","x","t">>)
              /\ (outcome.src = <<"w","-","2","/","3">> /\ Len(utilities) = 2)
                     => outcome.def.body = <<"w","i","d","t","h",":","2","/","3">>
              /\ (outcome.src = <<"w","-","1",".","5","/","2">> /\ Len(utilities) = 2)
                     => ~contains(outcome.def.body, <<"l","i","n","e","-","h","e","i","g","h","t">>)

\* the typography token with a modifier, recorded with its line-height
C24_Witness ==
    /\ outcome.op = "parse_tailwind_str" /\ outcome.k = "some"
    /\ outcome.src = <<"t","e","x","t","-","s","m","/","2">>
    /\ outcome.def.body = <<"f","o","n","t","-","s","i","z","e",":","1","\n","l","i","n","e","-","h","e","i","g","h","t",":"," ","c","a","l","c","(","v","a","r","(","-","-","s","p","a","c","i","n","g",")"," ","*"," ","2",")",";">>

\* the two EmitEnvs merged: the union of defs_generated, defs and
\* custom_properties one after the other
merged ==
    [env_now EXCEPT !.defs = defs \o once.defs,
                    !.defs_generated = defs_generated \cup once.defs_generated,
                    !.custom_properties = custom_properties \o once.custom_properties]

\* one EmitEnv that holds the configuration and receives the tokens one
\* after the other
RECURSIVE submitted(_, _)
submitted(env, tokens) ==
    IF Len(tokens) = 0 THEN env
    ELSE submitted(parse_tailwind_str(env, None, tokens[1]).env, Tail(tokens))

\* C25: when a token sequence is split over two EmitEnvs that hold the
\* same configuration, the same token in both parts included, the merged
\* EmitEnv has at most one rule for each class_name and holds the same set
\* of rules as one EmitEnv that received the whole sequence.
C25_MergedPartsAsWhole ==
    LET whole == submitted(load_config(EmitEnv_new, ConfigText(loaded[1].cfg)).env,
                           part_of(outcome, "left") \o part_of(outcome, "right"))
        rules(env) == {env.defs[i] : i \in DOMAIN env.defs}
    IN /\ \A i, j \in DOMAIN merged.defs :
              merged.defs[i].class_name = merged.defs[j].class_name => i = j
       /\ rules(merged) = rules(whole)

\* C26: a call of parse_tailwind_str that returns None leaves every field
\* of the EmitEnv as it was: defs, defs_generated, utilities, variants,
\* theme and custom_properties.
C26_NoneLeavesEmitEnv ==
    [][(outcome'.op = "parse_tailwind_str" /\ outcome'.k = "none")
          => UNCHANGED <<defs, defs_generated, utilities, variants, theme,
                         custom_properties>>]_vars

C28_RescanRecordsNothing ==
    [][(/\ outcome.op = "parse_full_string" /\ outcome.k = "ok"
        /\ outcome'.op = "parse_full_string" /\ outcome'.txt = outcome.txt)
          => /\ defs' = defs
             /\ \A it \in {parse_full_string(env_now, None, outcome.txt).trace[n] :
                             n \in DOMAIN parse_full_string(env_now, None, outcome.txt).trace} :
                    \A tok \in {lexer(SliceFrom(outcome.txt, it.i))} :
                        escape_string_for_css(Slice(outcome.txt, it.i, it.i + tok.end))
                                \in defs_generated
                            => it.next > it.i + tok.end]_vars

\* C29: every variant that resolves keeps the inner declarations: the body
\* of a recorded rule holds the body of its utility group, as it was
\* before the variants were applied, as a contiguous part.
C29_VariantKeepsInnerBody ==
    (/\ outcome.op = "parse_tailwind_str" /\ outcome.k = "some"
     /\ parsed_of(outcome).variants # <<>>)
        => \A inner \in {utility_body(env_now, parsed_of(outcome).utility)} :
               contains(outcome.def.body, inner.body_to_set.v)

\* C30: the body that instantiate returns for a value-taking template is
\* the text of one line of the template, the first line in template order
\* that has a value call and whose value calls all have a parameter that
\* matches the candidate, with each call replaced by its match; a non-empty
\* text of any other line is in the body only if that line reads the same
\* there
C30_FirstSatisfiedLineOnly ==
    LET lines == template_lines(outcome.parts, <<>>)
        satisfied == {k \in DOMAIN lines :
                         has_call(lines[k]) /\ line_satisfied(lines[k], outcome)}
        first == CHOOSE k \in satisfied : \A j \in satisfied : k <= j
        texts(k) == {lines[k][j].s :
                        j \in {i \in DOMAIN lines[k] :
                                  lines[k][i].t = "String" /\ Len(lines[k][i].s) > 0}}
    IN (outcome.op = "instantiate" /\ outcome.k = "ok")
           => /\ satisfied # {}
              /\ outcome.s = line_text(lines[first], outcome)
              /\ \A k \in DOMAIN lines \ {first} :
                     \A x \in texts(k) : contains(outcome.s, x) => x \in texts(first)

\* a body was returned from a template with a line without a value call
\* before the returned one, and one from a template where the candidate
\* satisfies two lines and the body is the earlier of them
C30_Witness ==
    LET lines == template_lines(outcome.parts, <<>>)
        satisfied == {k \in DOMAIN lines :
                         has_call(lines[k]) /\ line_satisfied(lines[k], outcome)}
    IN /\ outcome.op = "instantiate" /\ outcome.k = "ok"
       /\ \E k, j \in satisfied :
              /\ k < j
              /\ outcome.s = line_text(lines[k], outcome)
              /\ outcome.s # line_text(lines[j], outcome)
              /\ \E m \in 1..(k - 1) : ~line_satisfied(lines[m], outcome)
====
